---- MODULE Spec2Model ----
(***************************************************************************)
(* Eviction state machines of the Cache library: LruCache, LruKCache,      *)
(* LfuCache and ArcCache (src/LruCache.h, src/LfuCache.h, src/ArcCache/).  *)
(* Linked lists are kept as the code keeps them: nodes in an arena with    *)
(* prev_/next_ links, the key index as a map from keys to nodes.           *)
(***************************************************************************)
EXTENDS Integers, Sequences, FiniteSets, TLC

VARIABLES lru, historyList_, k_, lfu, arc, accessOrder, putCount, lastPut, accCount, calls, last,
          thread, mutex_, hashLruCaches, hashLfuCache

vars == <<lru, historyList_, k_, lfu, arc, accessOrder, putCount, lastPut, accCount, calls, last,
          thread, mutex_, hashLruCaches, hashLfuCache>>

(* ------------------------------ bounds -------------------------------- *)
MaxKey == 2
MaxVal == 2
MaxCap == 2
MaxHistCap == 2
MaxK == 2
MaxAccess == 3
MaxAverage == 2
MaxCalls == 6
MaxArcCalls == 7
MaxLongCalls == 11
MaxHotCap == 4
MaxThreadKey == 1
MaxThreadCap == 1
MaxThreadCalls == 4
MaxLruKCalls == 3
MaxSlices == 2
MaxTotalCap == 3
MaxHashCalls == 5
MaxThreshold == 2

Keys == 0..MaxKey
Values == 1..MaxVal

(* Key() and Value(): the value-initialised key and value of the sentinels *)
(* and of a get that misses.                                               *)
DefaultKey == 0
DefaultValue == 0

(* nullptr, and the two sentinel nodes of a list.                          *)
NULL == -1
dummyHead_ == 0
dummyTail_ == 1

(* ------------------------- LruNode / LruCache ------------------------- *)

(* LruNode(key, value): prev_ and next_ start as nullptr.                  *)
LruNode(key, value) ==
    [key |-> key, value |-> value, prev |-> NULL, next |-> NULL]

(* LruCache(capacity): the two sentinels linked to each other, no entry.   *)
(* ub records that a null pointer was dereferenced (the program is gone).  *)
LruCache(capacity) ==
    [capacity |-> capacity,
     nodeMap  |-> <<>>,
     node     |-> (dummyHead_ :> [LruNode(DefaultKey, DefaultValue) EXCEPT !.next = dummyTail_])
                  @@ (dummyTail_ :> [LruNode(DefaultKey, DefaultValue) EXCEPT !.prev = dummyHead_]),
     ub       |-> FALSE]

(* nodeMap_.size()                                                         *)
Size(c) == Cardinality(DOMAIN c.nodeMap)

(* nodeMap_.erase(key)                                                     *)
Erase(m, key) == [x \in (DOMAIN m) \ {key} |-> m[x]]

(* std::make_shared: a node no live pointer refers to. The node of a key   *)
(* takes the first free slot among 2 + key, 2 + key + n, 2 + key + 2n, ... *)
(* (n the number of keys), so that equal heaps are equal states.           *)
NewNodeId(c, key) ==
    LET n == MaxKey + 1
        slot(g) == 2 + key + g * n
    IN  slot(CHOOSE g \in 0..Cardinality(DOMAIN c.node) :
                 /\ slot(g) \notin DOMAIN c.node
                 /\ \A j \in 0..(g - 1) : slot(j) \in DOMAIN c.node)

(* shared_ptr ownership: a node lives while the index, a sentinel or a     *)
(* live node points to it.                                                 *)
RECURSIVE Reach(_, _)
Reach(c, S) ==
    LET T == S \cup { c.node[n].prev : n \in S } \cup { c.node[n].next : n \in S }
        U == T \cap DOMAIN c.node
    IN  IF U = S THEN S ELSE Reach(c, U)

Release(c) ==
    LET live == Reach(c, {dummyHead_, dummyTail_} \cup { c.nodeMap[x] : x \in DOMAIN c.nodeMap })
    IN  [c EXCEPT !.node = [n \in live |-> c.node[n]]]

removeNodeForwardOnly(c, n) ==
    IF c.ub \/ n = NULL THEN [c EXCEPT !.ub = TRUE]
    ELSE [c EXCEPT !.node[c.node[n].prev].next = c.node[n].next]

(* removeNode: node->prev_->next_ = node->next_;                           *)
(*             node->next_->prev_ = node->prev_;                           *)
removeNode(c, n) ==
    IF c.ub \/ n = NULL THEN [c EXCEPT !.ub = TRUE]
    ELSE IF c.node[n].prev = NULL THEN [c EXCEPT !.ub = TRUE]
    ELSE LET s1 == [c.node EXCEPT ![c.node[n].prev].next = c.node[n].next]
         IN  IF s1[n].next = NULL THEN [c EXCEPT !.node = s1, !.ub = TRUE]
             ELSE [c EXCEPT !.node = [s1 EXCEPT ![s1[n].next].prev = s1[n].prev]]

insertNodeAtHead(c, n) ==
    IF c.ub THEN c
    ELSE LET s1 == [c.node EXCEPT ![n].prev = dummyHead_]
             s2 == [s1 EXCEPT ![n].next = s1[dummyHead_].next]
         IN  IF s2[dummyHead_].next = NULL THEN [c EXCEPT !.node = s2, !.ub = TRUE]
             ELSE LET s3 == [s2 EXCEPT ![s2[dummyHead_].next].prev = n]
                  IN  [c EXCEPT !.node = [s3 EXCEPT ![dummyHead_].next = n]]

(* insertNode: link the node just before dummyTail_ (the MRU end).         *)
insertNode(c, n) ==
    IF c.ub THEN c
    ELSE LET s1 == [c.node EXCEPT ![n].next = dummyTail_]
             s2 == [s1 EXCEPT ![n].prev = s1[dummyTail_].prev]
         IN  IF s2[dummyTail_].prev = NULL THEN [c EXCEPT !.node = s2, !.ub = TRUE]
             ELSE LET s3 == [s2 EXCEPT ![s2[dummyTail_].prev].next = n]
                  IN  [c EXCEPT !.node = [s3 EXCEPT ![dummyTail_].prev = n]]

addNewNodeNoEvict(c, key, value) ==
    LET id == NewNodeId(c, key)
        c2 == [c EXCEPT !.node = c.node @@ (id :> LruNode(key, value))]
        c3 == insertNode(c2, id)
    IN  [c3 EXCEPT !.nodeMap = (key :> id) @@ c3.nodeMap]

(* addNewNode: when full, erase the key of dummyHead_->next_ from the      *)
(* index and unlink that node; then link a new node at the tail.           *)
addNewNode(c, key, value) ==
    LET victim == c.node[dummyHead_].next
        c1 == IF Size(c) >= c.capacity
              THEN IF victim = NULL THEN [c EXCEPT !.ub = TRUE]
                   ELSE removeNode([c EXCEPT !.nodeMap = Erase(c.nodeMap, c.node[victim].key)],
                                   victim)
              ELSE c
    IN  IF c1.ub THEN c1
        ELSE LET id == NewNodeId(c1, key)
                 c2 == [c1 EXCEPT !.node = c1.node @@ (id :> LruNode(key, value))]
                 c3 == insertNode(c2, id)
             IN  [c3 EXCEPT !.nodeMap = (key :> id) @@ c3.nodeMap]

LruPutKeepValue(c, key, value) ==
    IF c.capacity <= 0 THEN c
    ELSE IF key \in DOMAIN c.nodeMap
         THEN LET n == c.nodeMap[key]
              IN  Release(insertNode(removeNode(c, n), n))
         ELSE Release(addNewNode(c, key, value))

(* LruCache::put                                                           *)
LruPut(c, key, value) ==
    IF c.capacity <= 0 THEN c
    ELSE IF key \in DOMAIN c.nodeMap
         THEN LET n  == c.nodeMap[key]
                  c1 == [c EXCEPT !.node[n].value = value]
              IN  Release(insertNode(removeNode(c1, n), n))
         ELSE Release(addNewNode(c, key, value))

(* LruCache::get(key, value): the cache after the call ...                 *)
LruGet(c, key) ==
    IF key \in DOMAIN c.nodeMap
    THEN LET n == c.nodeMap[key]
         IN  Release(insertNode(removeNode(c, n), n))
    ELSE c

(* ... its return value ...                                                *)
LruHit(c, key) == key \in DOMAIN c.nodeMap

(* ... and the value it stores (Value{} when Value get(Key) misses).       *)
LruValue(c, key) ==
    IF key \in DOMAIN c.nodeMap THEN c.node[c.nodeMap[key]].value ELSE DefaultValue

(* The nodes met following next_ from dummyHead_ up to dummyTail_, and     *)
(* following prev_ from dummyTail_ up to dummyHead_.                       *)
RECURSIVE Walk(_, _, _, _, _)
Walk(c, n, stop, fwd, fuel) ==
    IF n = stop \/ n = NULL \/ n \notin DOMAIN c.node \/ fuel = 0 THEN <<>>
    ELSE <<n>> \o Walk(c, IF fwd THEN c.node[n].next ELSE c.node[n].prev, stop, fwd, fuel - 1)

Forward(c) ==
    Walk(c, c.node[dummyHead_].next, dummyTail_, TRUE, Cardinality(DOMAIN c.node))

Backward(c) ==
    Walk(c, c.node[dummyTail_].prev, dummyHead_, FALSE, Cardinality(DOMAIN c.node))

Reverse(s) == [i \in 1..Len(s) |-> s[Len(s) + 1 - i]]

ListKeys(c) == [i \in 1..Len(Forward(c)) |-> c.node[Forward(c)[i]].key]

(* ------------------------- observation of calls ----------------------- *)
(* last: the call that has just returned. hit: for get, its return value; *)
(* for put, whether the key was in the index. ret: the value a get stored. *)
(* before: the size of the index when the call began. prevPut: the value   *)
(* of the call just before, when that was a put of the same key.           *)
NoCall == [op |-> "none", key |-> DefaultKey, value |-> DefaultValue,
           hit |-> FALSE, ret |-> DefaultValue, before |-> 0, prevPut |-> DefaultValue]

PrevPut(key) == IF last.op = "put" /\ last.key = key THEN last.value ELSE DefaultValue

(* An engine that was not constructed.                                     *)
NoCache == [capacity |-> 0]

(* The calling threads. thread[t] is where thread t stands in its call     *)
(* (pc), the call (op, key, value) and the locals it has set; mutex_ maps  *)
(* each std::mutex to the thread holding it, 0 when it is free.            *)
MaxThreads == 2

Threads == 1..MaxThreads

Idle == [pc |-> "idle", op |-> "none", key |-> DefaultKey, value |-> DefaultValue,
         found |-> FALSE, ret |-> DefaultValue, part |-> "none"]

(* The thread t with its program counter moved.                            *)
Goto(t, pc) == [thread EXCEPT ![t].pc = pc]

(* The call record of a thread that returns.                               *)
Returned(t, hit, ret) ==
    [op |-> thread[t].op, key |-> thread[t].key, value |-> thread[t].value,
     hit |-> hit, ret |-> ret, before |-> 0, prevPut |-> DefaultValue]

(* std::mutex::lock returns once the mutex is free.                        *)
CanLockAlways(m) == TRUE

CanLock(m) == mutex_[m] = 0

(* The lock_guard is constructed by thread t ...                           *)
Lock(m, t) == [mutex_ EXCEPT ![m] = t]

(* ... and destroyed at the end of the body.                               *)
Unlock(m) == [mutex_ EXCEPT ![m] = 0]

(* Thread t touches without a lock what another thread is changing under   *)
(* the mutex m: a data race.                                               *)
Racing(t, m) == \E u \in Threads : u # t /\ mutex_[m] = u

(* A thread that ran into undefined behaviour ends the program.            *)
NoCrash == \A t \in Threads : thread[t].pc # "crash"

(* The std::mutex of slice i of a sharded wrapper.                         *)
sliceMutex(i) == <<"slice0", "slice1", "slice2", "slice3">>[i + 1]

Mutexes == {"lru", "historyList_", "lfu", "lruPart", "lfuPart"}
           \cup {sliceMutex(i) : i \in 0..3}

Unlocked == [m \in Mutexes |-> 0]

(* A single caller: whole calls, one after the other.                      *)
OneCaller ==
    /\ thread = [t \in Threads |-> Idle]
    /\ mutex_ = Unlocked

(* The access order of the keys: last put or get hit, oldest first.        *)
Touch(order, key) == SelectSeq(order, LAMBDA x : x # key) \o <<key>>

(* ------------------------------ LruCache ------------------------------ *)
InitLru ==
    /\ \E capacity \in 0..MaxCap : lru = LruCache(capacity)
    /\ historyList_ = LruCache(0)
    /\ k_ = 0
    /\ lfu = NoCache
    /\ arc = NoCache
    /\ accessOrder = <<>>
    /\ putCount = [x \in Keys |-> 0]
    /\ lastPut = [x \in Keys |-> DefaultValue]
    /\ accCount = [x \in Keys |-> 0]
    /\ calls = 0
    /\ last = NoCall
    /\ OneCaller
    /\ hashLruCaches = NoCache
    /\ hashLfuCache = NoCache

PutLru ==
    \E key \in Keys, value \in Values :
        /\ lru # NoCache
        /\ lru' = LruPut(lru, key, value)
        /\ accessOrder' = IF lru.capacity <= 0 THEN accessOrder ELSE Touch(accessOrder, key)
        /\ last' = [op |-> "put", key |-> key, value |-> value, hit |-> LruHit(lru, key),
                    ret |-> DefaultValue, before |-> Size(lru), prevPut |-> PrevPut(key)]
        /\ UNCHANGED <<thread, mutex_, hashLruCaches, hashLfuCache, historyList_, k_, lfu, arc, putCount, lastPut, accCount, calls>>

GetLru ==
    \E key \in Keys :
        /\ lru # NoCache
        /\ lru' = LruGet(lru, key)
        /\ accessOrder' = IF LruHit(lru, key) THEN Touch(accessOrder, key) ELSE accessOrder
        /\ last' = [op |-> "get", key |-> key, value |-> DefaultValue, hit |-> LruHit(lru, key),
                    ret |-> LruValue(lru, key), before |-> Size(lru), prevPut |-> PrevPut(key)]
        /\ UNCHANGED <<thread, mutex_, hashLruCaches, hashLfuCache, historyList_, k_, lfu, arc, putCount, lastPut, accCount, calls>>

NextLru == PutLru \/ GetLru

SpecLru == InitLru /\ [][NextLru]_vars

Resident(c) == DOMAIN c.nodeMap

(* C1: LruCache evicts in exact least-recently-used order. After every     *)
(* call the keys read from the head to the tail of the list are the        *)
(* resident keys in the order of their last put or get hit, oldest first;  *)
(* and a put of an absent key into a full cache of capacity >= 1 removes   *)
(* exactly the key that was next to the head and adds the new one.         *)
C1_Step ==
    /\ ListKeys(lru') = SelectSeq(accessOrder', LAMBDA x : x \in Resident(lru'))
    /\ (/\ last'.op = "put"
        /\ lru.capacity >= 1
        /\ last'.key \notin Resident(lru)
        /\ Size(lru) = lru.capacity)
       => /\ Resident(lru') = (Resident(lru) \ {ListKeys(lru)[1]}) \cup {last'.key}
          /\ ListKeys(lru)[1] # last'.key
          /\ Size(lru') = lru.capacity

C1_LruExactOrder == [][C1_Step]_vars

(* A put of a new key has just evicted from a full cache of capacity >= 2  *)
(* whose order an earlier get hit had changed: the key at the head is not  *)
(* the smallest resident key although keys are first put in any order.     *)
C1_Witness ==
    /\ last.op = "put" /\ ~last.hit
    /\ lru.capacity >= 2
    /\ last.before = lru.capacity
    /\ Len(accessOrder) > Size(lru)
    /\ ListKeys(lru) = SelectSeq(accessOrder, LAMBDA x : x \in Resident(lru))

(* C2: the number of resident entries of an LruCache never exceeds its     *)
(* capacity.                                                               *)
C2_LruSizeBound == Size(lru) <= lru.capacity

(* A put of an absent key has just returned from a cache that was full.    *)
C2_Witness ==
    /\ last.op = "put" /\ ~last.hit
    /\ lru.capacity >= 1
    /\ last.before = lru.capacity
    /\ Size(lru) = lru.capacity

(* C3: the index and the list of an LruCache agree. The keys of the index  *)
(* are the keys of the nodes linked between the sentinels, the index maps  *)
(* each key to the one node that carries it, and the walk along next_ from *)
(* the head is the reverse of the walk along prev_ from the tail.          *)
C3_LruIndexListConsistent ==
    LET f == Forward(lru)
    IN  /\ { lru.node[f[i]].key : i \in 1..Len(f) } = Resident(lru)
        /\ Len(f) = Size(lru)
        /\ \A i \in 1..Len(f) : lru.nodeMap[lru.node[f[i]].key] = f[i]
        /\ f = Reverse(Backward(lru))
        /\ ~lru.ub

(* A get hit has just relinked a node of a cache that holds two or more    *)
(* entries and has evicted before.                                         *)
C3_Witness ==
    /\ last.op = "get" /\ last.hit
    /\ Size(lru) >= 2
    /\ Len(accessOrder) > Size(lru)

(* C4: overwrite idempotence of LruCache. When put(k, v2) follows          *)
(* put(k, v1) on a cache of capacity >= 1, a get(k) then hits and yields   *)
(* v2, the list holds one node for k, the second put changes neither the   *)
(* size nor the resident keys, and the size is at most one above the size  *)
(* before the first put.                                                   *)
C4_Step ==
    (/\ last.op = "put" /\ last'.op = "put" /\ last'.key = last.key
     /\ lru.capacity >= 1)
    => /\ LruHit(lru', last'.key)
       /\ LruValue(lru', last'.key) = last'.value
       /\ LruHit(LruGet(lru', last'.key), last'.key)
       /\ Cardinality({ i \in 1..Len(ListKeys(lru')) : ListKeys(lru')[i] = last'.key }) = 1
       /\ Size(lru') = Size(lru)
       /\ Resident(lru') = Resident(lru)
       /\ Size(lru') <= last.before + 1

C4_LruOverwrite == [][C4_Step]_vars

(* put(k, v2) has just followed put(k, v1) with v1 # v2 on a full cache.   *)
C4_Witness ==
    /\ last.op = "put"
    /\ last.prevPut \notin {DefaultValue, last.value}
    /\ lru.capacity >= 1
    /\ Size(lru) = lru.capacity
    /\ LruValue(lru, last.key) = last.value

(* ------------------------------ LruKCache ----------------------------- *)
(* LruKCache derives from LruCache: lru is its base (the main cache),      *)
(* historyList_ an LruCache whose values are access counts, k_ the         *)
(* threshold.                                                              *)

ShouldPromoteLate(historyCount, k) == historyCount > k

ShouldPromoteEarly(historyCount, k) == historyCount + 1 >= k

(* if(historyCount >= k_)                                                  *)
ShouldPromote(historyCount, k) == historyCount >= k

(* historyList_->removeNode(historyList_->nodeMap_[key]): operator[] adds  *)
(* a null entry for a key that is not in the index.                        *)
HistoryRemove(h, key) ==
    IF key \in DOMAIN h.nodeMap
    THEN Release(removeNode(h, h.nodeMap[key]))
    ELSE [h EXCEPT !.ub = TRUE]

(* LruKCache::put, the history cache after the call, from the point where  *)
(* the key was not found in the main cache.                                *)
HistoryCount(h, key) == (IF LruHit(h, key) THEN LruValue(h, key) ELSE 0) + 1

HistoryAfterPut(h, key, k) ==
    LET historyCount == HistoryCount(h, key)
        h2 == LruPut(LruGet(h, key), key, historyCount)
    IN  IF h2.ub THEN h2
        ELSE IF ShouldPromote(historyCount, k) THEN HistoryRemove(h2, key)
        ELSE h2

(* LruKCache::put, the main cache after the call.                          *)
MainAfterPut(c, h, key, value, k) ==
    IF LruHit(c, key) THEN LruPut(LruGet(c, key), key, value)
    ELSE IF HistoryAfterPut(h, key, k).ub THEN c
    ELSE IF ShouldPromote(HistoryCount(h, key), k) THEN LruPut(c, key, value)
    ELSE c

(* LruKCache::get: historyList_->put(key, ++historyCount) after            *)
(* historyList_->get(key).                                                 *)
HistoryAfterGet(h, key) == LruPut(LruGet(h, key), key, LruValue(h, key) + 1)

Running == ~lru.ub /\ ~historyList_.ub

Crash(key) == [NoCall EXCEPT !.op = "crash", !.key = key]

InitLruK ==
    /\ \E capacity \in 0..MaxCap : lru = LruCache(capacity)
    /\ \E historyCapacity \in 0..MaxHistCap : historyList_ = LruCache(historyCapacity)
    /\ k_ \in 1..MaxK
    /\ lfu = NoCache
    /\ arc = NoCache
    /\ accessOrder = <<>>
    /\ putCount = [x \in Keys |-> 0]
    /\ lastPut = [x \in Keys |-> DefaultValue]
    /\ accCount = [x \in Keys |-> 0]
    /\ calls = 0
    /\ last = NoCall
    /\ OneCaller
    /\ hashLruCaches = NoCache
    /\ hashLfuCache = NoCache

PutLruK ==
    \E key \in Keys, value \in Values :
        /\ Running
        /\ accCount[key] < MaxAccess
        /\ historyList_' = IF LruHit(lru, key) THEN historyList_
                           ELSE HistoryAfterPut(historyList_, key, k_)
        /\ lru' = MainAfterPut(lru, historyList_, key, value, k_)
        /\ putCount' = [putCount EXCEPT ![key] = @ + 1]
        /\ accCount' = [accCount EXCEPT ![key] = @ + 1]
        /\ last' = IF historyList_'.ub THEN Crash(key)
                   ELSE [op |-> "put", key |-> key, value |-> value, hit |-> LruHit(lru, key),
                         ret |-> DefaultValue, before |-> Size(lru), prevPut |-> DefaultValue]
        /\ UNCHANGED <<thread, mutex_, hashLruCaches, hashLfuCache, k_, lfu, arc, accessOrder, lastPut, calls>>

GetLruK ==
    \E key \in Keys :
        /\ Running
        /\ accCount[key] < MaxAccess
        /\ historyList_' = HistoryAfterGet(historyList_, key)
        /\ lru' = IF historyList_'.ub THEN lru ELSE LruGet(lru, key)
        /\ accCount' = [accCount EXCEPT ![key] = @ + 1]
        /\ last' = IF historyList_'.ub THEN Crash(key)
                   ELSE [op |-> "get", key |-> key, value |-> DefaultValue,
                         hit |-> LruHit(lru, key), ret |-> LruValue(lru, key),
                         before |-> Size(lru), prevPut |-> DefaultValue]
        /\ UNCHANGED <<thread, mutex_, hashLruCaches, hashLfuCache, k_, lfu, arc, accessOrder, putCount, lastPut, calls>>

NextLruK == PutLruK \/ GetLruK

SpecLruK == InitLruK /\ [][NextLruK]_vars

(* putCount[k] and accCount[k]: the put calls, and the put and get calls,  *)
(* made on key k so far (the call that has just returned included).        *)

(* C6 as stated: a get(k) hits only when put has been called on k at least *)
(* K times.                                                                *)
C6_GateCountsPutsOnly ==
    (last.op = "get" /\ last.hit) => putCount[last.key] >= k_

(* C6: the admission gate of LruKCache. A key on which put and get         *)
(* together have been called fewer than K times, or put never, is not in   *)
(* the main cache and a get of it does not hit.                            *)
C6_LruKAdmissionGate ==
    /\ \A key \in Resident(lru) : accCount[key] >= k_ /\ putCount[key] >= 1
    /\ (last.op = "get" /\ last.hit)
       => (accCount[last.key] - 1 >= k_ /\ putCount[last.key] >= 1)

(* A get has just missed on a key that was put before but had been         *)
(* accessed fewer than K times when the get began.                         *)
C6_Witness ==
    /\ last.op = "get" /\ ~last.hit
    /\ putCount[last.key] >= 1
    /\ accCount[last.key] - 1 < k_

C7_Step ==
    /\ (/\ last'.op = "put"
        /\ lru.capacity >= 1
        /\ ~LruHit(lru, last'.key)
        /\ HistoryCount(historyList_, last'.key) >= k_)
       => /\ LruHit(lru', last'.key)
          /\ LruValue(lru', last'.key) = last'.value
          /\ ~HistoryAfterGet(historyList_', last'.key).ub
          /\ LruHit(LruGet(lru', last'.key), last'.key)
    /\ last'.op = "get" => Resident(lru') = Resident(lru)

C8_PromotionLeavesHistory ==
    (last.op = "put" /\ ~last.hit /\ last.key \in Resident(lru))
    => /\ last.key \notin Resident(historyList_)
       /\ \A i \in 1..Len(ListKeys(historyList_)) : ListKeys(historyList_)[i] # last.key
       /\ { ListKeys(historyList_)[i] : i \in 1..Len(ListKeys(historyList_)) }
            = Resident(historyList_)
       /\ ~LruHit(historyList_, last.key)

(* ------------------------- FreqList / LfuCache ------------------------ *)
(* freqToFreqList maps a frequency to the nodes linked between head_ and   *)
(* tail_ of its FreqList, the node after head_ first. FreqList::removeNode *)
(* clears the links of the node it unlinks and returns at once on a node   *)
(* whose links are null, so a node is linked in at most one list.          *)

INT8_MAX == 127

(* A key value no caller uses (what an uninitialised key may also hold).   *)
NoKey == MaxKey + 1

JunkKeys == Keys \cup {NoKey}

(* FreqList::Node(key, value): freq starts at 1.                           *)
FreqNode(key, value) == [key |-> key, value |-> value, freq |-> 1]

(* LfuCache(capacity, maxAverageNum). aged is a history flag: the aging    *)
(* loop has run at least once.                                             *)
LfuCache(capacity, maxAverageNum) ==
    [capacity       |-> capacity,
     minFreq        |-> 1,
     maxAverageNum  |-> maxAverageNum,
     curAverageNum  |-> 0,
     curTotalNum    |-> 0,
     nodeMap        |-> <<>>,
     node           |-> <<>>,
     freqToFreqList |-> <<>>,
     aged           |-> FALSE,
     ub             |-> FALSE]

SeqRange(q) == { q[i] : i \in 1..Len(q) }

(* The nodes linked in some FreqList.                                      *)
Linked(c) == UNION { SeqRange(c.freqToFreqList[f]) : f \in DOMAIN c.freqToFreqList }

(* shared_ptr ownership: the index and the lists keep nodes alive.         *)
LfuRelease(c) ==
    LET live == { c.nodeMap[x] : x \in DOMAIN c.nodeMap } \cup Linked(c)
    IN  [c EXCEPT !.node = [n \in live \cap DOMAIN c.node |-> c.node[n]]]

(* FreqList::isEmpty (written isEmptr, head_next_ in the source).          *)
isEmpty(c, freq) == c.freqToFreqList[freq] = <<>>

(* FreqList::removeNode(node): unlink; nothing on a node that is unlinked. *)
FreqListRemoveNode(c, n) ==
    [c EXCEPT !.freqToFreqList =
        [f \in DOMAIN c.freqToFreqList |->
            SelectSeq(c.freqToFreqList[f], LAMBDA x : x # n)]]

(* FreqList::addNode(node): link right after head_.                        *)
FreqListAddNode(c, freq, n) ==
    [c EXCEPT !.freqToFreqList[freq] = <<n>> \o c.freqToFreqList[freq]]

(* LfuCache::removeFromFreqList: freqToFreqList_[freq] of a frequency with *)
(* no list is a null FreqList*.                                            *)
removeFromFreqList(c, n) ==
    IF c.ub THEN c
    ELSE IF c.node[n].freq \notin DOMAIN c.freqToFreqList THEN [c EXCEPT !.ub = TRUE]
    ELSE FreqListRemoveNode(c, n)

(* LfuCache::addToFreqList                                                 *)
addToFreqList(c, n) ==
    IF c.ub THEN c
    ELSE LET freq == c.node[n].freq
             c1 == IF freq \in DOMAIN c.freqToFreqList THEN c
                   ELSE [c EXCEPT !.freqToFreqList = (freq :> <<>>) @@ c.freqToFreqList]
         IN  FreqListAddNode(c1, freq, n)

(* curTotalNum_ / nodeMap_.size(): the int is converted to the 64-bit      *)
(* size_t, divided, and the quotient converted back to int (its low 32     *)
(* bits). The division runs digit by digit in base 2^16.                   *)
Base == 65536

DivStep(rem, digit, n) == [q |-> (rem * Base + digit) \div n, r |-> (rem * Base + digit) % n]

AverageOf(total, n) ==
    IF total >= 0 THEN total \div n
    ELSE LET d3 == (Base - 1) - ((-total) - 1)
             s0 == DivStep(0, Base - 1, n)
             s1 == DivStep(s0.r, Base - 1, n)
             s2 == DivStep(s1.r, Base - 1, n)
             s3 == DivStep(s2.r, d3, n)
         IN  IF s2.q >= Base \div 2 THEN (s2.q - Base) * Base + s3.q
             ELSE s2.q * Base + s3.q

(* The two places that recompute curAverageNum_.                           *)
Recompute(c) ==
    [c EXCEPT !.curAverageNum =
        IF DOMAIN c.nodeMap = {} THEN 0
        ELSE AverageOf(c.curTotalNum, Cardinality(DOMAIN c.nodeMap))]

(* The aging loop over nodeMap_, in the iteration order of the             *)
(* unordered_map (order: the keys in that order).                          *)
RECURSIVE AgeNodes(_, _, _)
AgeNodes(c, order, i) ==
    IF i > Len(order) \/ c.ub THEN c
    ELSE IF order[i] \notin DOMAIN c.nodeMap THEN AgeNodes(c, order, i + 1)
    ELSE LET n  == c.nodeMap[order[i]]
             c1 == removeFromFreqList(c, n)
             f  == c1.node[n].freq - (c1.maxAverageNum \div 2)
             c2 == [c1 EXCEPT !.node[n].freq = IF f < 1 THEN 1 ELSE f]
         IN  AgeNodes(addToFreqList(c2, n), order, i + 1)

(* std::min folded over a set.                                             *)
RECURSIVE MinOf(_)
MinOf(S) ==
    LET x == CHOOSE y \in S : TRUE
    IN  IF S = {x} THEN x
        ELSE LET m == MinOf(S \ {x}) IN IF x < m THEN x ELSE m

(* The loop after aging: minFreq_ = min over the lists for which           *)
(* "! !isEmpty()" holds, starting from INT8_MAX; INT8_MAX becomes 1.       *)
MinFreqAfterAging(c) ==
    LET m == MinOf({INT8_MAX} \cup { f \in DOMAIN c.freqToFreqList : isEmpty(c, f) })
    IN  IF m = INT8_MAX THEN 1 ELSE m

(* LfuCache::updateAveAndTotalFreqNum                                      *)
updateAveAndTotalFreqNum(c, order) ==
    IF c.ub THEN c
    ELSE LET c1 == Recompute([c EXCEPT !.curTotalNum = c.curTotalNum + 1])
         IN  IF c1.curAverageNum > c1.maxAverageNum /\ DOMAIN c1.nodeMap # {}
             THEN LET c2 == AgeNodes(c1, order, 1)
                  IN  IF c2.ub THEN c2
                      ELSE [c2 EXCEPT !.minFreq = MinFreqAfterAging(c2), !.aged = TRUE]
             ELSE c1

(* LfuCache::updateNodePos                                                 *)
updateNodePos(c, n, order) ==
    LET c1 == removeFromFreqList(c, n)
        c2 == IF c1.ub THEN c1 ELSE [c1 EXCEPT !.node[n].freq = c1.node[n].freq + 1]
        c3 == addToFreqList(c2, n)
        old == c3.node[n].freq - 1
        c4 == IF c3.ub THEN c3
              ELSE IF old = c3.minFreq
                   THEN IF old \notin DOMAIN c3.freqToFreqList THEN [c3 EXCEPT !.ub = TRUE]
                        ELSE IF isEmpty(c3, old) THEN [c3 EXCEPT !.minFreq = c3.minFreq + 1]
                        ELSE c3
                   ELSE c3
    IN  updateAveAndTotalFreqNum(c4, order)

(* LfuCache::put lines 108-119: the eviction. "tail" is the tail_ of the   *)
(* list of minFreq_. Line 110 unlinks tail->pre; line 111 reads tail->pre  *)
(* again and erases that node's key from the index: the key of the node    *)
(* now next to the tail, or, when none is left, the key of head_, which    *)
(* Node() never initialises (junk).                                        *)
Evict(c, junk) ==
    IF c.minFreq \notin DOMAIN c.freqToFreqList THEN [c EXCEPT !.ub = TRUE]
    ELSE LET list  == c.freqToFreqList[c.minFreq]
             rest  == IF list = <<>> THEN list ELSE SubSeq(list, 1, Len(list) - 1)
             key   == IF rest = <<>> THEN junk ELSE c.node[rest[Len(rest)]].key
             c1    == [c EXCEPT !.freqToFreqList[c.minFreq] = rest,
                                !.nodeMap = Erase(c.nodeMap, key),
                                !.curTotalNum = c.curTotalNum - c.minFreq]
         IN  Recompute(c1)

(* LfuCache::put                                                           *)
LfuPut(c, key, value, order, junk) ==
    IF c.capacity = 0 THEN c
    ELSE IF key \in DOMAIN c.nodeMap
         THEN LET n == c.nodeMap[key]
              IN  LfuRelease(updateNodePos([c EXCEPT !.node[n].value = value], n, order))
         ELSE LET c1 == IF Cardinality(DOMAIN c.nodeMap) >= c.capacity THEN Evict(c, junk) ELSE c
              IN  IF c1.ub THEN c1
                  ELSE LET id == NewNodeId(c1, key)
                           c2 == [c1 EXCEPT !.node = (id :> FreqNode(key, value)) @@ c1.node,
                                            !.nodeMap = (key :> id) @@ c1.nodeMap]
                       IN  LfuRelease(updateAveAndTotalFreqNum(addToFreqList(c2, id), order))

(* LfuCache::get(key, value): the cache after the call, the return value   *)
(* and the value stored.                                                   *)
LfuGet(c, key, order) ==
    IF key \in DOMAIN c.nodeMap
    THEN LfuRelease(updateNodePos(c, c.nodeMap[key], order))
    ELSE c

LfuHit(c, key) == key \in DOMAIN c.nodeMap

LfuValue(c, key) ==
    IF key \in DOMAIN c.nodeMap THEN c.node[c.nodeMap[key]].value ELSE DefaultValue

(* The iteration orders an unordered_map of the keys may have.             *)
RECURSIVE Orders(_)
Orders(S) ==
    IF S = {} THEN {<<>>}
    ELSE UNION { { <<x>> \o q : q \in Orders(S \ {x}) } : x \in S }

(* What the read of head_'s key may yield, where put reads it.             *)
JunkRead(c, key) ==
    IF /\ c.capacity # 0
       /\ key \notin DOMAIN c.nodeMap
       /\ Cardinality(DOMAIN c.nodeMap) >= c.capacity
       /\ c.minFreq \in DOMAIN c.freqToFreqList
       /\ Len(c.freqToFreqList[c.minFreq]) <= 1
    THEN JunkKeys
    ELSE {NoKey}

InitLfu ==
    /\ \E capacity \in 0..MaxCap, maxAverageNum \in 1..MaxAverage :
           lfu = LfuCache(capacity, maxAverageNum)
    /\ lru = NoCache
    /\ historyList_ = NoCache
    /\ k_ = 0
    /\ arc = NoCache
    /\ accessOrder = <<>>
    /\ putCount = [x \in Keys |-> 0]
    /\ lastPut = [x \in Keys |-> DefaultValue]
    /\ accCount = [x \in Keys |-> 0]
    /\ calls = 0
    /\ last = NoCall
    /\ OneCaller
    /\ hashLruCaches = NoCache
    /\ hashLfuCache = NoCache

PutLfu ==
    /\ lfu # NoCache
    /\ \E key \in Keys, value \in Values :
      \E order \in Orders(DOMAIN lfu.nodeMap \cup {key}), junk \in JunkRead(lfu, key) :
        /\ ~lfu.ub
        /\ calls < MaxCalls
        /\ lfu' = LfuPut(lfu, key, value, order, junk)
        /\ accessOrder' = IF lfu.capacity = 0 THEN accessOrder ELSE Touch(accessOrder, key)
        /\ last' = IF lfu'.ub THEN Crash(key)
                   ELSE [op |-> "put", key |-> key, value |-> value, hit |-> LfuHit(lfu, key),
                         ret |-> DefaultValue, before |-> Cardinality(DOMAIN lfu.nodeMap),
                         prevPut |-> DefaultValue]
        /\ calls' = calls + 1
        /\ UNCHANGED <<thread, mutex_, hashLruCaches, hashLfuCache, lru, historyList_, k_, arc, putCount, lastPut, accCount>>

GetLfu ==
    /\ lfu # NoCache
    /\ \E key \in Keys :
      \E order \in Orders(DOMAIN lfu.nodeMap) :
        /\ ~lfu.ub
        /\ calls < MaxCalls
        /\ lfu' = LfuGet(lfu, key, order)
        /\ accessOrder' = IF LfuHit(lfu, key) THEN Touch(accessOrder, key) ELSE accessOrder
        /\ last' = IF lfu'.ub THEN Crash(key)
                   ELSE [op |-> "get", key |-> key, value |-> DefaultValue,
                         hit |-> LfuHit(lfu, key), ret |-> LfuValue(lfu, key),
                         before |-> Cardinality(DOMAIN lfu.nodeMap), prevPut |-> PrevPut(key)]
        /\ calls' = calls + 1
        /\ UNCHANGED <<thread, mutex_, hashLruCaches, hashLfuCache, lru, historyList_, k_, arc, putCount, lastPut, accCount>>

NextLfu == PutLfu \/ GetLfu

SpecLfu == InitLfu /\ [][NextLfu]_vars

LfuFreq(c, key) == c.node[c.nodeMap[key]].freq

(* x comes before y in the sequence q.                                     *)
Earlier(q, x, y) ==
    \E i, j \in 1..Len(q) : i < j /\ q[i] = x /\ q[j] = y

(* C9: LFU victim selection. A put of an absent key into an LfuCache of    *)
(* capacity >= 2 that is at capacity removes exactly one resident key, one *)
(* of minimum frequency among the resident keys and, as long as no aging   *)
(* has run, among the keys of that frequency the one whose last put or hit *)
(* (the moment it reached the frequency) is the earliest; so a key that    *)
(* was hit is not evicted while an unhit key is resident.                  *)
C9_Step ==
    (/\ last'.op = "put"
     /\ lfu.capacity >= 2
     /\ ~LfuHit(lfu, last'.key)
     /\ Size(lfu) >= lfu.capacity)
    => \E victim \in Resident(lfu) :
          /\ Resident(lfu') = (Resident(lfu) \ {victim}) \cup {last'.key}
          /\ \A other \in Resident(lfu) :
                /\ LfuFreq(lfu, victim) <= LfuFreq(lfu, other)
                /\ (~lfu.aged /\ LfuFreq(lfu, victim) = LfuFreq(lfu, other))
                   => ~Earlier(accessOrder, other, victim)

C9_LfuEvictsOldestOfMinFrequency == [][C9_Step]_vars

(* C10: the number of resident entries of an LfuCache never exceeds its    *)
(* capacity, and a put of an absent key at capacity removes exactly one    *)
(* resident entry.                                                         *)
C10_Step ==
    /\ Size(lfu') <= lfu'.capacity
    /\ (/\ last'.op = "put"
        /\ lfu.capacity >= 1
        /\ ~LfuHit(lfu, last'.key)
        /\ Size(lfu) >= lfu.capacity)
       => Cardinality(Resident(lfu) \ Resident(lfu')) = 1

C10_LfuSizeBound == [][C10_Step]_vars

(* ------------------------------ ArcCache ------------------------------ *)
(* Each part keeps its index (mainCache, ghostCache: key -> node) and its  *)
(* lists (the nodes between the sentinels, the node after the head first)  *)
(* as the code does, statement by statement.                               *)

(* ArcNode(key, value): accessCount_ starts at 1.                          *)
ArcNode(key, value) == [key |-> key, value |-> value, accessCount |-> 1]

Without(q, n) == SelectSeq(q, LAMBDA x : x # n)

(* shared_ptr ownership within a part.                                     *)
ArcRelease(p) ==
    LET lists == IF "mainList" \in DOMAIN p THEN SeqRange(p.mainList)
                 ELSE UNION { SeqRange(p.freqMap[f]) : f \in DOMAIN p.freqMap }
        live  == { p.mainCache[x] : x \in DOMAIN p.mainCache }
                 \cup { p.ghostCache[x] : x \in DOMAIN p.ghostCache }
                 \cup SeqRange(p.ghostList) \cup lists
    IN  [p EXCEPT !.node = [n \in live \cap DOMAIN p.node |-> p.node[n]]]

(* The tail of removeMainToGhost, the same in both parts: drop the oldest  *)
(* ghost when the ghost index is full, then link the node at the ghost     *)
(* tail and index it.                                                      *)
ToGhost(p, n) ==
    LET full == Cardinality(DOMAIN p.ghostCache) >= p.ghostCapacity
        p1   == IF full /\ p.ghostList # <<>>
                THEN [p EXCEPT !.ghostCache = Erase(p.ghostCache, p.node[Head(p.ghostList)].key),
                               !.ghostList  = Tail(p.ghostList)]
                ELSE p
    IN  IF full /\ p.ghostList = <<>> THEN p
        ELSE [p1 EXCEPT !.ghostList  = p1.ghostList \o <<n>>,
                        !.ghostCache = (p1.node[n].key :> n) @@ Erase(p1.ghostCache, p1.node[n].key)]

(* checkGhost, the same in both parts: the part after the call ...         *)
checkGhost(p, key) ==
    IF key \in DOMAIN p.ghostCache
    THEN ArcRelease([p EXCEPT !.ghostList  = Without(p.ghostList, p.ghostCache[key]),
                              !.ghostCache = Erase(p.ghostCache, key)])
    ELSE p

(* ... and its return value.                                               *)
InGhost(p, key) == key \in DOMAIN p.ghostCache

(* increaseCapacity, the same in both parts.                               *)
increaseCapacity(p) == [p EXCEPT !.capacity = p.capacity + 1]

(* ArcLruPart(capacity, transformThreshold)                                *)
ArcLruPart(capacity, transformThreshold) ==
    [capacity           |-> capacity,
     ghostCapacity      |-> capacity,
     transformThreshold |-> transformThreshold,
     mainCache          |-> <<>>,
     mainList           |-> <<>>,
     ghostCache         |-> <<>>,
     ghostList          |-> <<>>,
     node               |-> <<>>]

(* ArcLruPart::removeMainToGhost(node)                                     *)
ArcLruRemoveMainToGhost(p, n) ==
    IF p.mainList = <<>> THEN p
    ELSE ToGhost([p EXCEPT !.mainList  = Without(p.mainList, n),
                           !.mainCache = Erase(p.mainCache, p.node[n].key)], n)

(* ArcLruPart::addNewNode evicting while a free slot would remain after    *)
(* the insertion.                                                          *)
ArcLruAddNewNodeEvictEarly(p, key, value) ==
    LET p1 == IF Cardinality(DOMAIN p.mainCache) + 2 >= p.capacity /\ p.mainList # <<>>
              THEN ArcLruRemoveMainToGhost(p, Head(p.mainList))
              ELSE p
        id == NewNodeId(p1, key)
    IN  [p1 EXCEPT !.node      = (id :> ArcNode(key, value)) @@ p1.node,
                   !.mainCache = (key :> id) @@ p1.mainCache,
                   !.mainList  = p1.mainList \o <<id>>]

(* ArcLruPart::addNewNode                                                  *)
ArcLruAddNewNode(p, key, value) ==
    LET p1 == IF Cardinality(DOMAIN p.mainCache) >= p.capacity /\ p.mainList # <<>>
              THEN ArcLruRemoveMainToGhost(p, Head(p.mainList))
              ELSE p
        id == NewNodeId(p1, key)
    IN  [p1 EXCEPT !.node      = (id :> ArcNode(key, value)) @@ p1.node,
                   !.mainCache = (key :> id) @@ p1.mainCache,
                   !.mainList  = p1.mainList \o <<id>>]

(* ArcLruPart::put without the capacity_ == 0 return.                      *)
ArcLruPutNoCapacityCheck(p, key, value) ==
    IF key \in DOMAIN p.mainCache
    THEN LET n == p.mainCache[key]
         IN  [p EXCEPT !.node[n].value = value,
                       !.mainList = Without(p.mainList, n) \o <<n>>]
    ELSE ArcRelease(ArcLruAddNewNode(p, key, value))

(* ArcLruPart::put, the part under the lock_guard.                         *)
ArcLruPutLocked(p, key, value) ==
    IF key \in DOMAIN p.mainCache
    THEN LET n == p.mainCache[key]
         IN  [p EXCEPT !.node[n].value = value,
                       !.mainList = Without(p.mainList, n) \o <<n>>]
    ELSE ArcRelease(ArcLruAddNewNode(p, key, value))

(* ArcLruPart::put                                                         *)
ArcLruPut(p, key, value) ==
    IF p.capacity = 0 THEN p ELSE ArcLruPutLocked(p, key, value)

(* ArcLruPart::get: the part after the call, the return value, the value   *)
(* stored and shouldTransform.                                             *)
ArcLruGet(p, key) ==
    IF key \in DOMAIN p.mainCache
    THEN LET n == p.mainCache[key]
         IN  [p EXCEPT !.node[n].accessCount = p.node[n].accessCount + 1,
                       !.mainList = Without(p.mainList, n) \o <<n>>]
    ELSE p

ArcLruHit(p, key) == key \in DOMAIN p.mainCache

ArcLruValue(p, key) == p.node[p.mainCache[key]].value

shouldTransform(p, key) ==
    /\ key \in DOMAIN p.mainCache
    /\ p.node[p.mainCache[key]].accessCount + 1 >= p.transformThreshold

(* ArcLruPart::decreaseCapacity without the eviction from a full list.     *)
ArcLruDecreaseCapacityKeepAll(p) ==
    IF p.capacity <= 0 THEN p
    ELSE ArcRelease([p EXCEPT !.capacity = p.capacity - 1])

(* ArcLruPart::decreaseCapacity                                            *)
ArcLruDecreaseCapacity(p) ==
    IF p.capacity <= 0 THEN p
    ELSE LET p1 == IF Cardinality(DOMAIN p.mainCache) = p.capacity /\ p.mainList # <<>>
                   THEN ArcLruRemoveMainToGhost(p, Head(p.mainList))
                   ELSE p
         IN  ArcRelease([p1 EXCEPT !.capacity = p1.capacity - 1])

(* ArcLfuPart(capacity, transformThreshold); freqMap_ is an ordered map    *)
(* from a frequency to the list of the nodes of that frequency.            *)
ArcLfuPart(capacity, transformThreshold) ==
    [capacity           |-> capacity,
     ghostCapacity      |-> capacity,
     transformThreshold |-> transformThreshold,
     minFreq            |-> 1,
     mainCache          |-> <<>>,
     freqMap            |-> <<>>,
     ghostCache         |-> <<>>,
     ghostList          |-> <<>>,
     node               |-> <<>>]

(* freqMap_[f], which creates an empty list when f has none.               *)
FreqMapAt(p, f) ==
    IF f \in DOMAIN p.freqMap THEN p ELSE [p EXCEPT !.freqMap = (f :> <<>>) @@ p.freqMap]

(* freqMap_.begin()->first                                                 *)
FirstFreq(freqMap) == CHOOSE f \in DOMAIN freqMap : \A g \in DOMAIN freqMap : f <= g

(* ArcLfuPart::removeMainToGhost()                                         *)
ArcLfuRemoveMainToGhost(p) ==
    IF DOMAIN p.freqMap = {} THEN p
    ELSE LET p0 == FreqMapAt(p, p.minFreq)
         IN  IF p0.freqMap[p0.minFreq] = <<>> THEN p0
             ELSE LET n    == Head(p0.freqMap[p0.minFreq])
                      rest == Tail(p0.freqMap[p0.minFreq])
                      p1   == [p0 EXCEPT !.freqMap[p0.minFreq] = rest,
                                         !.mainCache = Erase(p0.mainCache, p0.node[n].key)]
                      fm   == Erase(p1.freqMap, p1.minFreq)
                      p2   == IF rest = <<>>
                              THEN [p1 EXCEPT !.freqMap = fm,
                                              !.minFreq = IF DOMAIN fm # {} THEN FirstFreq(fm)
                                                          ELSE p1.minFreq]
                              ELSE p1
                  IN  ToGhost(p2, n)

(* ArcLfuPart::addNewNode                                                  *)
ArcLfuAddNewNode(p, key, value) ==
    LET p1 == IF Cardinality(DOMAIN p.mainCache) >= p.capacity
              THEN ArcLfuRemoveMainToGhost(p)
              ELSE p
        id == NewNodeId(p1, key)
        p2 == FreqMapAt(p1, 1)
    IN  [p2 EXCEPT !.node       = (id :> ArcNode(key, value)) @@ p2.node,
                   !.mainCache  = (key :> id) @@ p2.mainCache,
                   !.freqMap[1] = p2.freqMap[1] \o <<id>>,
                   !.minFreq    = 1]

(* ArcLfuPart::updateNodePosition                                          *)
updateNodePosition(p, n) ==
    LET oldFreq == p.node[n].accessCount
        newFreq == oldFreq + 1
        p0      == FreqMapAt(p, oldFreq)
        oldList == Without(p0.freqMap[oldFreq], n)
        p1      == IF oldList = <<>>
                   THEN [p0 EXCEPT !.freqMap = Erase(p0.freqMap, oldFreq),
                                   !.minFreq = IF p0.minFreq = oldFreq THEN newFreq
                                               ELSE p0.minFreq]
                   ELSE [p0 EXCEPT !.freqMap[oldFreq] = oldList]
        p2      == FreqMapAt(p1, newFreq)
    IN  [p2 EXCEPT !.node[n].accessCount = newFreq,
                   !.freqMap[newFreq]    = p2.freqMap[newFreq] \o <<n>>]

(* ArcLfuPart::put, the part under the lock_guard.                         *)
ArcLfuPutLocked(p, key, value) ==
    IF key \in DOMAIN p.mainCache
    THEN LET n == p.mainCache[key]
         IN  updateNodePosition([p EXCEPT !.node[n].value = value], n)
    ELSE ArcRelease(ArcLfuAddNewNode(p, key, value))

(* ArcLfuPart::put                                                         *)
ArcLfuPut(p, key, value) ==
    IF p.capacity = 0 THEN p ELSE ArcLfuPutLocked(p, key, value)

(* ArcLfuPart::get: the part after the call, the return value and the      *)
(* value stored.                                                           *)
ArcLfuGet(p, key) ==
    IF key \in DOMAIN p.mainCache THEN updateNodePosition(p, p.mainCache[key]) ELSE p

ArcLfuHit(p, key) == key \in DOMAIN p.mainCache

ArcLfuValue(p, key) == p.node[p.mainCache[key]].value

(* ArcLfuPart::decreaseCapacity                                            *)
ArcLfuDecreaseCapacity(p) ==
    IF p.capacity = 0 THEN p
    ELSE LET p1 == IF Cardinality(DOMAIN p.mainCache) = p.capacity
                   THEN ArcLfuRemoveMainToGhost(p)
                   ELSE p
         IN  ArcRelease([p1 EXCEPT !.capacity = p1.capacity - 1])

(* ArcCache(capacity, transformThreshold)                                  *)
ArcCache(capacity, transformThreshold) ==
    [capacity           |-> capacity,
     transformThreshold |-> transformThreshold,
     lruPart            |-> ArcLruPart(capacity, transformThreshold),
     lfuPart            |-> ArcLfuPart(capacity, transformThreshold)]

(* ArcCache::checkGhostCaches: the cache after the call ...                *)
checkGhostCaches(a, key) ==
    IF InGhost(a.lruPart, key)
    THEN [a EXCEPT !.lruPart = increaseCapacity(checkGhost(a.lruPart, key)),
                   !.lfuPart = ArcLfuDecreaseCapacity(a.lfuPart)]
    ELSE IF InGhost(a.lfuPart, key)
         THEN [a EXCEPT !.lruPart = ArcLruDecreaseCapacity(a.lruPart),
                        !.lfuPart = increaseCapacity(checkGhost(a.lfuPart, key))]
         ELSE a

(* ... and its return value.                                               *)
inGhost(a, key) == InGhost(a.lruPart, key) \/ InGhost(a.lfuPart, key)

(* ArcCache::put                                                           *)
ArcPut(a, key, value) ==
    LET a1 == checkGhostCaches(a, key)
    IN  [a1 EXCEPT !.lruPart = ArcLruPut(a1.lruPart, key, value)]

(* ArcCache::get(key, value): the cache after the call, the return value   *)
(* and the value stored.                                                   *)
ArcGet(a, key) ==
    LET a1 == checkGhostCaches(a, key)
    IN  IF ArcLruHit(a1.lruPart, key)
        THEN [a1 EXCEPT !.lruPart = ArcLruGet(a1.lruPart, key),
                        !.lfuPart = IF shouldTransform(a1.lruPart, key)
                                    THEN ArcLfuPut(a1.lfuPart, key, ArcLruValue(a1.lruPart, key))
                                    ELSE a1.lfuPart]
        ELSE [a1 EXCEPT !.lfuPart = ArcLfuGet(a1.lfuPart, key)]

ArcHit(a, key) ==
    LET a1 == checkGhostCaches(a, key)
    IN  ArcLruHit(a1.lruPart, key) \/ ArcLfuHit(a1.lfuPart, key)

ArcValue(a, key) ==
    LET a1 == checkGhostCaches(a, key)
    IN  IF ArcLruHit(a1.lruPart, key) THEN ArcLruValue(a1.lruPart, key)
        ELSE ArcLfuValue(a1.lfuPart, key)

InitArc ==
    /\ \E capacity \in 0..MaxCap, transformThreshold \in 1..MaxThreshold :
           arc = ArcCache(capacity, transformThreshold)
    /\ lru = NoCache
    /\ historyList_ = NoCache
    /\ k_ = 0
    /\ lfu = NoCache
    /\ accessOrder = <<>>
    /\ putCount = [x \in Keys |-> 0]
    /\ lastPut = [x \in Keys |-> DefaultValue]
    /\ accCount = [x \in Keys |-> 0]
    /\ calls = 0
    /\ last = NoCall
    /\ OneCaller
    /\ hashLruCaches = NoCache
    /\ hashLfuCache = NoCache

(* ArcCache::put of one of the given keys with one of the given values,    *)
(* in a run of at most bound calls. accessOrder: the keys put so far, by   *)
(* last put or hit; lastPut: the value of the latest put of each key.      *)
PutArcOf(keys, values, bound) ==
    /\ arc # NoCache
    /\ \E key \in keys, value \in values :
        /\ calls < bound
        /\ arc' = ArcPut(arc, key, value)
        /\ accessOrder' = Touch(accessOrder, key)
        /\ last' = [op |-> "put", key |-> key, value |-> value,
                    hit |-> ArcLruHit(arc.lruPart, key) \/ ArcLfuHit(arc.lfuPart, key),
                    ret |-> DefaultValue, before |-> Cardinality(DOMAIN arc.lruPart.mainCache),
                    prevPut |-> PrevPut(key)]
        /\ calls' = calls + 1
        /\ lastPut' = [lastPut EXCEPT ![key] = value]
        /\ UNCHANGED <<thread, mutex_, hashLruCaches, hashLfuCache, lru, historyList_, k_, lfu, putCount, accCount>>

(* ArcCache::get on one of the given keys.                                 *)
GetArcOf(keys, bound) ==
    /\ arc # NoCache
    /\ \E key \in keys :
        /\ calls < bound
        /\ arc' = ArcGet(arc, key)
        /\ accessOrder' = IF ArcHit(arc, key) THEN Touch(accessOrder, key) ELSE accessOrder
        /\ last' = [op |-> "get", key |-> key, value |-> DefaultValue,
                    hit |-> ArcHit(arc, key),
                    ret |-> IF ArcHit(arc, key) THEN ArcValue(arc, key) ELSE DefaultValue,
                    before |-> Cardinality(DOMAIN arc.lruPart.mainCache),
                    prevPut |-> PrevPut(key)]
        /\ calls' = calls + 1
        /\ UNCHANGED <<thread, mutex_, hashLruCaches, hashLfuCache, lru, historyList_, k_, lfu, putCount, lastPut, accCount>>

PutArc == PutArcOf(Keys, Values, MaxArcCalls)

GetArc == GetArcOf(Keys, MaxArcCalls)

NextArc == PutArc \/ GetArc

SpecArc == InitArc /\ [][NextArc]_vars

(* ------------------- The three engines, one of them built ------------------- *)
InitCache == InitLru \/ InitLfu \/ InitArc

NextCache == NextLru \/ NextLfu \/ NextArc

SpecCache == InitCache /\ [][NextCache]_vars

(* C5: with capacity 0, LruCache, LfuCache and ArcCache stay as they were  *)
(* constructed whatever is put (nothing resident, nothing in a ghost list, *)
(* no capacity moved) and every get misses.                                *)
C5_ZeroCapacityDisables ==
    /\ (lru # NoCache /\ lru.capacity = 0) => (lru = LruCache(0) /\ ~last.hit)
    /\ (lfu # NoCache /\ lfu.capacity = 0) =>
           (lfu = LfuCache(0, lfu.maxAverageNum) /\ ~last.hit)
    /\ (arc # NoCache /\ arc.capacity = 0) =>
           (arc = ArcCache(0, arc.transformThreshold) /\ ~last.hit)

(* C5 witness: an ArcCache of capacity 0 has just answered a get of the    *)
(* key that the call before it put.                                        *)
C5_Witness ==
    /\ arc # NoCache
    /\ arc.capacity = 0
    /\ last.op = "get"
    /\ last.prevPut # DefaultValue

(* ------------------------- ArcCache: the claims ------------------------- *)
(* The keys of the four structures.                                        *)
T1(a) == DOMAIN a.lruPart.mainCache

T2(a) == DOMAIN a.lfuPart.mainCache

B1(a) == DOMAIN a.lruPart.ghostCache

B2(a) == DOMAIN a.lfuPart.ghostCache

(* C11: ARC key exclusivity. In every state reachable by put and get on an *)
(* ArcCache, each key is in at most one of T1, T2, B1, B2.                 *)
C11_KeyInOneStructure ==
    \A x \in Keys :
        Cardinality({ i \in 1..4 : x \in <<T1(arc), T2(arc), B1(arc), B2(arc)>>[i] }) <= 1

(* C12: the resident entries of an ArcCache, |T1| + |T2|, never exceed its *)
(* capacity.                                                               *)
C12_ArcSizeBound ==
    arc # NoCache => Cardinality(T1(arc)) + Cardinality(T2(arc)) <= arc.capacity

(* The key at the front of the list of minFreq_ in T2.                     *)
FrontOfMinFreq(p) == p.node[Head(p.freqMap[p.minFreq])].key

(* C13: a put or get of a key in B1 raises T1's capacity by exactly 1,     *)
(* lowers T2's by exactly 1 (a full T2 first moves the front entry of its  *)
(* minimum frequency to B2) and removes the key from B1; with the key in   *)
(* B2 the roles are exchanged; with the key in neither ghost list both     *)
(* capacities are unchanged.                                               *)
C13_Step ==
    LET k == last'.key
    IN  /\ k \in B1(arc) =>
              /\ arc'.lruPart.capacity = arc.lruPart.capacity + 1
              /\ arc'.lfuPart.capacity = arc.lfuPart.capacity - 1
              /\ k \notin B1(arc')
              /\ Cardinality(T2(arc)) = arc.lfuPart.capacity /\ T2(arc) # {}
                    => /\ FrontOfMinFreq(arc.lfuPart) \notin T2(arc')
                       /\ FrontOfMinFreq(arc.lfuPart) \in B2(arc')
        /\ k \in B2(arc) =>
              /\ arc'.lfuPart.capacity = arc.lfuPart.capacity + 1
              /\ arc'.lruPart.capacity = arc.lruPart.capacity - 1
              /\ k \notin B2(arc')
        /\ k \notin B1(arc) \cup B2(arc) =>
              /\ arc'.lruPart.capacity = arc.lruPart.capacity
              /\ arc'.lfuPart.capacity = arc.lfuPart.capacity

C13_GhostHitSteering == [][C13_Step]_vars

(* C14: on an ArcCache of capacity at least 1, a get(k) that immediately   *)
(* follows put(k, v) hits and returns v.                                   *)
C14_ArcHitPreservation ==
    (/\ arc # NoCache
     /\ arc.capacity >= 1
     /\ last.op = "get"
     /\ last.prevPut # DefaultValue)
    => (last.hit /\ last.ret = last.prevPut)

(* --------------- ArcCache under a hot set smaller than C --------------- *)
(* The workload of testHotDataAccess restricted to its hot keys: a fresh   *)
(* ArcCache of capacity C and puts and gets of fewer than C distinct keys. *)
HotSet(capacity) == { x \in Keys : x + 1 < capacity }

InitArcHot ==
    /\ \E capacity \in 2..MaxHotCap, transformThreshold \in 1..MaxThreshold :
           arc = ArcCache(capacity, transformThreshold)
    /\ lru = NoCache
    /\ historyList_ = NoCache
    /\ k_ = 0
    /\ lfu = NoCache
    /\ accessOrder = <<>>
    /\ putCount = [x \in Keys |-> 0]
    /\ lastPut = [x \in Keys |-> DefaultValue]
    /\ accCount = [x \in Keys |-> 0]
    /\ calls = 0
    /\ last = NoCall
    /\ OneCaller
    /\ hashLruCaches = NoCache
    /\ hashLfuCache = NoCache

PutArcHot == PutArcOf(HotSet(arc.capacity), Values, MaxArcCalls)

GetArcHot == GetArcOf(HotSet(arc.capacity), MaxArcCalls)

NextArcHot == PutArcHot \/ GetArcHot

SpecArcHot == InitArcHot /\ [][NextArcHot]_vars

(* C15: on a fresh ArcCache of capacity C used with fewer than C distinct  *)
(* keys nothing is ever evicted (every key put so far is in T1, both ghost *)
(* lists are empty, no capacity has moved) and every get of a key that was *)
(* put before hits.                                                        *)
C15_ArcHotSetAlwaysHits ==
    /\ T1(arc) = SeqRange(accessOrder)
    /\ T2(arc) \subseteq T1(arc)
    /\ B1(arc) = {} /\ B2(arc) = {}
    /\ arc.lruPart.capacity = arc.capacity /\ arc.lfuPart.capacity = arc.capacity
    /\ (last.op = "get" /\ last.key \in SeqRange(accessOrder)) =>
           (last.hit /\ last.ret = ArcLruValue(arc.lruPart, last.key))

(* C15 witness: capacity 3, both hot keys put, one of them also in T2, and *)
(* the last call a get that hit.                                           *)
C15_Witness ==
    /\ arc.capacity = 3
    /\ Len(accessOrder) = 2
    /\ T2(arc) # {}
    /\ last.op = "get"
    /\ last.hit

(* ------------------- ArcCache called by several threads ------------------- *)
(* One action per call the thread makes into a part, and one for the lock  *)
(* of a lock_guard; the body under a lock_guard and its release are one    *)
(* step. part: the part whose checkGhost, lock or body the thread is at.   *)
ThreadKeys == 0..MaxThreadKey

InitArcThreads ==
    /\ \E capacity \in 1..MaxThreadCap, transformThreshold \in 1..MaxThreshold :
           arc = ArcCache(capacity, transformThreshold)
    /\ lru = NoCache
    /\ historyList_ = NoCache
    /\ k_ = 0
    /\ lfu = NoCache
    /\ accessOrder = <<>>
    /\ putCount = [x \in Keys |-> 0]
    /\ lastPut = [x \in Keys |-> DefaultValue]
    /\ accCount = [x \in Keys |-> 0]
    /\ calls = 0
    /\ last = NoCall
    /\ OneCaller
    /\ hashLruCaches = NoCache
    /\ hashLfuCache = NoCache

ArcFrame == UNCHANGED <<lru, historyList_, k_, lfu, accessOrder, putCount, lastPut, accCount,
                        hashLruCaches, hashLfuCache>>

(* A thread calls ArcCache::put or ArcCache::get.                          *)
ArcCall(t) ==
    /\ arc # NoCache /\ NoCrash
    /\ thread[t].pc = "idle"
    /\ calls < MaxThreadCalls
    /\ \E op \in {"put", "get"}, key \in ThreadKeys :
          thread' = [thread EXCEPT ![t] =
                        [Idle EXCEPT !.pc = "checkGhost", !.op = op, !.key = key,
                                     !.value = IF op = "put" THEN 1 ELSE DefaultValue,
                                     !.part = "lruPart"]]
    /\ calls' = calls + 1
    /\ UNCHANGED <<arc, mutex_, last>>
    /\ ArcFrame

(* checkGhost of the part, line 1: ghostCache_.find(key), no lock held.    *)
(* A miss in the LRU part goes on to the LFU part (the else-if).           *)
ArcGhostFind(t) ==
    /\ arc # NoCache /\ NoCrash
    /\ thread[t].pc = "checkGhost"
    /\ thread' = [thread EXCEPT
          ![t].pc   = IF InGhost(arc[thread[t].part], thread[t].key) THEN "ghostRemove"
                      ELSE IF thread[t].part = "lruPart" THEN "checkGhost"
                      ELSE "enter",
          ![t].part = IF InGhost(arc[thread[t].part], thread[t].key) THEN thread[t].part
                      ELSE "lfuPart"
          ]
    /\ UNCHANGED <<arc, mutex_, last, calls>>
    /\ ArcFrame

(* checkGhost of the part, the rest: removeNode(it->second) and            *)
(* ghostCache_.erase(it), no lock held. When another thread has erased the *)
(* entry since the find, the iterator is invalid, and when another thread  *)
(* is inside the locked body of the part, the two race: the program goes   *)
(* on or ends. The same race is in increaseCapacity and decreaseCapacity.  *)
ArcGhostRemove(t) ==
    /\ arc # NoCache /\ NoCrash
    /\ thread[t].pc = "ghostRemove"
    /\ IF InGhost(arc[thread[t].part], thread[t].key)
       THEN /\ arc' = [arc EXCEPT ![thread[t].part] = checkGhost(@, thread[t].key)]
            /\ \E pc \in {"adjustFirst"} \cup
                          (IF Racing(t, thread[t].part) THEN {"crash"} ELSE {}) :
                  thread' = Goto(t, pc)
       ELSE /\ arc' = arc
            /\ \E pc \in {"adjustFirst", "crash"} : thread' = Goto(t, pc)
    /\ UNCHANGED <<mutex_, last, calls>>
    /\ ArcFrame

(* checkGhostCaches after a ghost hit, first call: increaseCapacity of the *)
(* LRU part (hit in B1) or decreaseCapacity of the LRU part (hit in B2).   *)
ArcAdjustFirst(t) ==
    /\ arc # NoCache /\ NoCrash
    /\ thread[t].pc = "adjustFirst"
    /\ arc' = [arc EXCEPT !.lruPart = IF thread[t].part = "lruPart"
                                      THEN increaseCapacity(@)
                                      ELSE ArcLruDecreaseCapacity(@)]
    /\ \E pc \in {"adjustSecond"} \cup (IF Racing(t, "lruPart") THEN {"crash"} ELSE {}) :
          thread' = Goto(t, pc)
    /\ UNCHANGED <<mutex_, last, calls>>
    /\ ArcFrame

(* checkGhostCaches after a ghost hit, second call: decreaseCapacity of    *)
(* the LFU part (hit in B1) or increaseCapacity of the LFU part (hit in    *)
(* B2).                                                                    *)
ArcAdjustSecond(t) ==
    /\ arc # NoCache /\ NoCrash
    /\ thread[t].pc = "adjustSecond"
    /\ arc' = [arc EXCEPT !.lfuPart = IF thread[t].part = "lruPart"
                                      THEN ArcLfuDecreaseCapacity(@)
                                      ELSE increaseCapacity(@)]
    /\ \E pc \in {"enter"} \cup (IF Racing(t, "lfuPart") THEN {"crash"} ELSE {}) :
          thread' = Goto(t, pc)
    /\ UNCHANGED <<mutex_, last, calls>>
    /\ ArcFrame

(* lruPart_->put or lruPart_->get is entered: put returns at once when     *)
(* capacity_ == 0 (read without the lock), otherwise the lock_guard is     *)
(* next.                                                                   *)
ArcLruEnter(t) ==
    /\ arc # NoCache /\ NoCrash
    /\ thread[t].pc = "enter"
    /\ IF thread[t].op = "put" /\ arc.lruPart.capacity = 0
       THEN /\ thread' = [thread EXCEPT ![t] = Idle]
            /\ last' = Returned(t, FALSE, DefaultValue)
       ELSE /\ thread' = [thread EXCEPT ![t].pc = "lock", ![t].part = "lruPart"]
            /\ last' = last
    /\ UNCHANGED <<arc, mutex_, calls>>
    /\ ArcFrame

(* std::lock_guard<std::mutex> lock(mutex_) of the part.                   *)
ArcLock(t) ==
    /\ arc # NoCache /\ NoCrash
    /\ thread[t].pc = "lock"
    /\ CanLock(thread[t].part)
    /\ mutex_' = Lock(thread[t].part, t)
    /\ thread' = Goto(t, "body")
    /\ UNCHANGED <<arc, last, calls>>
    /\ ArcFrame

(* The body of ArcLruPart::put or ArcLruPart::get, and the release of the  *)
(* lock. put returns; a get that hit returns true, after lfuPart_->put     *)
(* when shouldTransform was set; a get that missed goes to lfuPart_->get.  *)
ArcLruBody(t) ==
    LET key == thread[t].key
        hit == ArcLruHit(arc.lruPart, key)
    IN  /\ arc # NoCache /\ NoCrash
        /\ thread[t].pc = "body" /\ thread[t].part = "lruPart"
        /\ mutex_' = Unlock("lruPart")
        /\ IF thread[t].op = "put"
           THEN /\ arc' = [arc EXCEPT !.lruPart = ArcLruPutLocked(@, key, thread[t].value)]
                /\ thread' = [thread EXCEPT ![t] = Idle]
                /\ last' = Returned(t, hit, DefaultValue)
           ELSE /\ arc' = [arc EXCEPT !.lruPart = ArcLruGet(@, key)]
                /\ IF hit /\ ~shouldTransform(arc.lruPart, key)
                   THEN /\ thread' = [thread EXCEPT ![t] = Idle]
                        /\ last' = Returned(t, TRUE, ArcLruValue(arc.lruPart, key))
                   ELSE /\ thread' = [thread EXCEPT
                              ![t].pc = "enterLfu", ![t].part = "lfuPart", ![t].found = hit,
                              ![t].ret = IF hit THEN ArcLruValue(arc.lruPart, key)
                                         ELSE DefaultValue]
                        /\ last' = last
        /\ UNCHANGED calls
        /\ ArcFrame

(* lfuPart_->put (after a T1 hit) or lfuPart_->get (after a T1 miss) is    *)
(* entered: put returns at once when capacity_ == 0.                       *)
ArcLfuEnter(t) ==
    /\ arc # NoCache /\ NoCrash
    /\ thread[t].pc = "enterLfu"
    /\ IF thread[t].found /\ arc.lfuPart.capacity = 0
       THEN /\ thread' = [thread EXCEPT ![t] = Idle]
            /\ last' = Returned(t, TRUE, thread[t].ret)
       ELSE /\ thread' = Goto(t, "lock")
            /\ last' = last
    /\ UNCHANGED <<arc, mutex_, calls>>
    /\ ArcFrame

(* The body of ArcLfuPart::put or ArcLfuPart::get, and the release of the  *)
(* lock; ArcCache::get returns.                                            *)
ArcLfuBody(t) ==
    LET key == thread[t].key
        hit == ArcLfuHit(arc.lfuPart, key)
    IN  /\ arc # NoCache /\ NoCrash
        /\ thread[t].pc = "body" /\ thread[t].part = "lfuPart"
        /\ mutex_' = Unlock("lfuPart")
        /\ arc' = [arc EXCEPT !.lfuPart = IF thread[t].found
                                          THEN ArcLfuPutLocked(@, key, thread[t].ret)
                                          ELSE ArcLfuGet(@, key)]
        /\ thread' = [thread EXCEPT ![t] = Idle]
        /\ last' = IF thread[t].found THEN Returned(t, TRUE, thread[t].ret)
                   ELSE Returned(t, hit, IF hit THEN ArcLfuValue(arc.lfuPart, key)
                                         ELSE DefaultValue)
        /\ UNCHANGED calls
        /\ ArcFrame

ArcThread(t) ==
        \/ ArcCall(t)
        \/ ArcGhostFind(t)
        \/ ArcGhostRemove(t)
        \/ ArcAdjustFirst(t)
        \/ ArcAdjustSecond(t)
        \/ ArcLruEnter(t)
        \/ ArcLock(t)
        \/ ArcLruBody(t)
        \/ ArcLfuEnter(t)
        \/ ArcLfuBody(t)

NextArcThreads == \E t \in Threads : ArcThread(t)

SpecArcThreads == InitArcThreads /\ [][NextArcThreads]_vars

(* A thread that is inside a call and not waiting for a mutex: its next    *)
(* step reads or writes the state of the cache.                            *)
Accessing(t) == thread[t].pc \notin {"idle", "lock", "crash"}

Holds(t) == { m \in DOMAIN mutex_ : mutex_[m] = t }

(* C16: every step of a put or get on an ArcCache (ghost check, capacity   *)
(* adjustment, access to T1, access to T2) runs with the mutex held, so no *)
(* two threads are inside the cache at once and no thread finds the state  *)
(* changed under an iterator it holds.                                     *)
C16_ArcSerialised ==
    /\ \A t \in Threads : Accessing(t) => Holds(t) # {}
    /\ \A t, u \in Threads : (t # u /\ Accessing(t)) => ~Accessing(u)
    /\ NoCrash

(* ------------------- LruCache called by several threads ------------------- *)
(* pc: "enter" (the capacity_ test of put), "lock" (the lock_guard),       *)
(* "find" (nodeMap_.find under the lock), "apply" (the rest of the body    *)
(* and the release of the lock).                                           *)
InitLruThreads ==
    /\ \E capacity \in 0..MaxThreadCap : lru = LruCache(capacity)
    /\ historyList_ = LruCache(0)
    /\ k_ = 0
    /\ lfu = NoCache
    /\ arc = NoCache
    /\ accessOrder = <<>>
    /\ putCount = [x \in Keys |-> 0]
    /\ lastPut = [x \in Keys |-> DefaultValue]
    /\ accCount = [x \in Keys |-> 0]
    /\ calls = 0
    /\ last = NoCall
    /\ OneCaller
    /\ hashLruCaches = NoCache
    /\ hashLfuCache = NoCache

LruFrame == UNCHANGED <<historyList_, k_, lfu, arc, accessOrder, putCount, lastPut, accCount,
                        hashLruCaches, hashLfuCache>>

(* A thread calls LruCache::put or LruCache::get.                          *)
LruCall(t) ==
    /\ lru # NoCache /\ k_ = 0 /\ NoCrash
    /\ thread[t].pc = "idle"
    /\ calls < MaxThreadCalls
    /\ \E key \in ThreadKeys :
          \/ \E value \in Values :
                thread' = [thread EXCEPT ![t] =
                    [Idle EXCEPT !.pc = "enter", !.op = "put", !.key = key, !.value = value]]
          \/ thread' = [thread EXCEPT ![t] =
                    [Idle EXCEPT !.pc = "lock", !.op = "get", !.key = key]]
    /\ calls' = calls + 1
    /\ UNCHANGED <<lru, mutex_, last>>
    /\ LruFrame

(* LruCache::put line 113: if(capacity_ <= 0) return.                      *)
LruEnter(t) ==
    /\ lru # NoCache /\ k_ = 0 /\ NoCrash
    /\ thread[t].pc = "enter"
    /\ IF lru.capacity <= 0
       THEN /\ thread' = [thread EXCEPT ![t] = Idle]
            /\ last' = Returned(t, FALSE, DefaultValue)
       ELSE /\ thread' = Goto(t, "lock")
            /\ last' = last
    /\ UNCHANGED <<lru, mutex_, calls>>
    /\ LruFrame

(* std::lock_guard<std::mutex> lock(mutex_)                                *)
LruLock(t) ==
    /\ lru # NoCache /\ k_ = 0 /\ NoCrash
    /\ thread[t].pc = "lock"
    /\ CanLock("lru")
    /\ mutex_' = Lock("lru", t)
    /\ thread' = Goto(t, "find")
    /\ UNCHANGED <<lru, last, calls>>
    /\ LruFrame

(* auto it = nodeMap_.find(key)                                            *)
LruFind(t) ==
    /\ lru # NoCache /\ k_ = 0 /\ NoCrash
    /\ thread[t].pc = "find"
    /\ thread' = [thread EXCEPT ![t].pc = "apply", ![t].found = LruHit(lru, thread[t].key)]
    /\ UNCHANGED <<lru, mutex_, last, calls>>
    /\ LruFrame

(* The body after the find, as it runs on the iterator found: the cache    *)
(* after it. An iterator whose entry is gone is invalid (ub).              *)
LruApplied(c, op, found, key, value) ==
    IF found
    THEN IF key \notin DOMAIN c.nodeMap THEN [c EXCEPT !.ub = TRUE]
         ELSE LET n  == c.nodeMap[key]
                  c1 == IF op = "put" THEN [c EXCEPT !.node[n].value = value] ELSE c
              IN  Release(insertNode(removeNode(c1, n), n))
    ELSE IF op = "put" THEN Release(addNewNode(c, key, value)) ELSE c

(* The rest of the body of put or get, the release of the lock and the     *)
(* return.                                                                 *)
LruApply(t) ==
    LET me   == thread[t]
        next == LruApplied(lru, me.op, me.found, me.key, me.value)
    IN  /\ lru # NoCache /\ k_ = 0 /\ NoCrash
        /\ me.pc = "apply"
        /\ lru' = next
        /\ mutex_' = Unlock("lru")
        /\ thread' = [thread EXCEPT ![t] = IF next.ub THEN [Idle EXCEPT !.pc = "crash"]
                                           ELSE Idle]
        /\ last' = IF next.ub THEN Crash(me.key)
                   ELSE Returned(t, me.found,
                                 IF me.found /\ me.op = "get"
                                 THEN next.node[next.nodeMap[me.key]].value
                                 ELSE DefaultValue)
        /\ UNCHANGED calls
        /\ LruFrame

LruThread(t) ==
        \/ LruCall(t)
        \/ LruEnter(t)
        \/ LruLock(t)
        \/ LruFind(t)
        \/ LruApply(t)

NextLruThreads == \E t \in Threads : LruThread(t)

SpecLruThreads == InitLruThreads /\ [][NextLruThreads]_vars

(* The whole call of a thread as one serial step from the current state:   *)
(* the cache after it and the call record it returns.                      *)
SerialLru(t) ==
    IF thread[t].op = "put" THEN LruPut(lru, thread[t].key, thread[t].value)
    ELSE LruGet(lru, thread[t].key)

SerialLruResult(t) ==
    Returned(t, IF thread[t].op = "put" THEN lru.capacity > 0 /\ LruHit(lru, thread[t].key)
                ELSE LruHit(lru, thread[t].key),
             IF thread[t].op = "get" THEN LruValue(lru, thread[t].key) ELSE DefaultValue)

(* C17, the states: at most one thread is between lock and release and it  *)
(* holds the mutex; the size bound and the consistency of index and list   *)
(* hold in every state.                                                    *)
C17_Observed ==
    /\ \A t \in Threads : thread[t].pc \in {"find", "apply"} <=> mutex_.lru = t
    /\ ~lru.ub
    /\ Size(lru) <= lru.capacity
    /\ Forward(lru) = Reverse(Backward(lru))
    /\ Resident(lru) = SeqRange(ListKeys(lru))
    /\ Len(Forward(lru)) = Size(lru)

(* C17, the steps: the cache and the returned results change only when a   *)
(* call returns, and then as that whole call would change them from the    *)
(* state before the step: the calls take effect in the order they return.  *)
C17_Step ==
    (lru' # lru \/ last' # last) =>
        \E t \in Threads :
            /\ thread[t].pc \in {"enter", "apply"}
            /\ thread'[t].pc = "idle"
            /\ lru' = SerialLru(t)
            /\ last' = SerialLruResult(t)

(* C17: LruCache is linearizable under concurrent put and get.             *)
C17_LruLinearizable == [](C17_Observed) /\ [][C17_Step]_vars

(* C17 witness: a thread holds the mutex in the middle of a put on a full  *)
(* cache of a key that is absent while the other thread waits for the      *)
(* mutex.                                                                  *)
C17_Witness ==
    /\ lru # NoCache /\ lru.capacity >= 1 /\ Size(lru) = lru.capacity
    /\ \E t, u \in Threads :
          /\ thread[t].pc = "apply" /\ thread[t].op = "put" /\ ~thread[t].found
          /\ thread[u].pc = "lock"

(* ------------------- HashLruCaches and HashLfuCache ------------------- *)
(* The slice the code numbers i is lruSliceCaches[i + 1] here.             *)

(* std::ceil(capacity / static_cast<double>(sliceNum)), exact on the       *)
(* integers used here.                                                     *)
Ceil(capacity, sliceNum) ==
    IF capacity % sliceNum = 0 THEN capacity \div sliceNum
    ELSE capacity \div sliceNum + 1

(* std::hash<int>: the value itself.                                       *)
Hash(key) == key

(* HashLruCaches(capacity, sliceNum)                                       *)
HashLruCaches(capacity, sliceNum) ==
    [capacity       |-> capacity,
     sliceNum       |-> sliceNum,
     lruSliceCaches |-> [i \in 1..sliceNum |-> LruCache(Ceil(capacity, sliceNum))]]

(* HashLfuCache(capacity, sliceNum, maxAverageNum), sliceNum > 0           *)
HashLfuCache(capacity, sliceNum, maxAverageNum) ==
    [capacity       |-> capacity,
     sliceNum       |-> sliceNum,
     lfuSliceCaches |-> [i \in 1..sliceNum |->
                            LfuCache(Ceil(capacity, sliceNum), maxAverageNum)]]

(* A slice index that is one off.                                          *)
sliceIndexNext(w, key) == (Hash(key) + 1) % w.sliceNum

(* size_t sliceIndex = Hash(key) % sliceNum_                               *)
sliceIndex(w, key) == Hash(key) % w.sliceNum

(* HashLruCaches::put and get                                              *)
HashLruPut(w, key, value) ==
    [w EXCEPT !.lruSliceCaches[sliceIndex(w, key) + 1] = LruPut(@, key, value)]

HashLruGet(w, key) ==
    [w EXCEPT !.lruSliceCaches[sliceIndex(w, key) + 1] = LruGet(@, key)]

HashLruHit(w, key) == LruHit(w.lruSliceCaches[sliceIndex(w, key) + 1], key)

HashLruValue(w, key) == LruValue(w.lruSliceCaches[sliceIndex(w, key) + 1], key)

(* HashLfuCache::put and get                                               *)
HashLfuPut(w, key, value, order, junk) ==
    [w EXCEPT !.lfuSliceCaches[sliceIndex(w, key) + 1] = LfuPut(@, key, value, order, junk)]

HashLfuGet(w, key, order) ==
    [w EXCEPT !.lfuSliceCaches[sliceIndex(w, key) + 1] = LfuGet(@, key, order)]

HashLfuHit(w, key) == LfuHit(w.lfuSliceCaches[sliceIndex(w, key) + 1], key)

HashLfuValue(w, key) == LfuValue(w.lfuSliceCaches[sliceIndex(w, key) + 1], key)

InitHash ==
    /\ \E capacity \in 0..MaxTotalCap, sliceNum \in 1..MaxSlices :
          \/ /\ hashLruCaches = HashLruCaches(capacity, sliceNum)
             /\ hashLfuCache = NoCache
          \/ /\ hashLruCaches = NoCache
             /\ \E maxAverageNum \in 1..MaxAverage :
                   hashLfuCache = HashLfuCache(capacity, sliceNum, maxAverageNum)
    /\ lru = NoCache
    /\ historyList_ = NoCache
    /\ k_ = 0
    /\ lfu = NoCache
    /\ arc = NoCache
    /\ accessOrder = <<>>
    /\ putCount = [x \in Keys |-> 0]
    /\ lastPut = [x \in Keys |-> DefaultValue]
    /\ accCount = [x \in Keys |-> 0]
    /\ calls = 0
    /\ last = NoCall
    /\ OneCaller

HashFrame == UNCHANGED <<lru, historyList_, k_, lfu, arc, accessOrder, putCount, lastPut, accCount,
                         thread, mutex_>>

PutHashLru ==
    /\ hashLruCaches # NoCache
    /\ calls < MaxHashCalls
    /\ \E key \in Keys, value \in Values :
        /\ hashLruCaches' = HashLruPut(hashLruCaches, key, value)
        /\ last' = [op |-> "put", key |-> key, value |-> value,
                    hit |-> HashLruHit(hashLruCaches, key), ret |-> DefaultValue,
                    before |-> 0, prevPut |-> DefaultValue]
    /\ calls' = calls + 1
    /\ UNCHANGED hashLfuCache
    /\ HashFrame

GetHashLru ==
    /\ hashLruCaches # NoCache
    /\ calls < MaxHashCalls
    /\ \E key \in Keys :
        /\ hashLruCaches' = HashLruGet(hashLruCaches, key)
        /\ last' = [op |-> "get", key |-> key, value |-> DefaultValue,
                    hit |-> HashLruHit(hashLruCaches, key),
                    ret |-> HashLruValue(hashLruCaches, key),
                    before |-> 0, prevPut |-> DefaultValue]
    /\ calls' = calls + 1
    /\ UNCHANGED hashLfuCache
    /\ HashFrame

LfuSlice(key) == hashLfuCache.lfuSliceCaches[sliceIndex(hashLfuCache, key) + 1]

PutHashLfu ==
    /\ hashLfuCache # NoCache
    /\ calls < MaxHashCalls
    /\ \A i \in 1..hashLfuCache.sliceNum : ~hashLfuCache.lfuSliceCaches[i].ub
    /\ \E key \in Keys, value \in Values :
        \E order \in Orders(DOMAIN LfuSlice(key).nodeMap \cup {key}),
           junk \in JunkRead(LfuSlice(key), key) :
            /\ hashLfuCache' = HashLfuPut(hashLfuCache, key, value, order, junk)
            /\ last' = [op |-> "put", key |-> key, value |-> value,
                        hit |-> HashLfuHit(hashLfuCache, key), ret |-> DefaultValue,
                        before |-> 0, prevPut |-> DefaultValue]
    /\ calls' = calls + 1
    /\ UNCHANGED hashLruCaches
    /\ HashFrame

GetHashLfu ==
    /\ hashLfuCache # NoCache
    /\ calls < MaxHashCalls
    /\ \A i \in 1..hashLfuCache.sliceNum : ~hashLfuCache.lfuSliceCaches[i].ub
    /\ \E key \in Keys :
        \E order \in Orders(DOMAIN LfuSlice(key).nodeMap) :
            /\ hashLfuCache' = HashLfuGet(hashLfuCache, key, order)
            /\ last' = [op |-> "get", key |-> key, value |-> DefaultValue,
                        hit |-> HashLfuHit(hashLfuCache, key),
                        ret |-> HashLfuValue(hashLfuCache, key),
                        before |-> 0, prevPut |-> DefaultValue]
    /\ calls' = calls + 1
    /\ UNCHANGED hashLruCaches
    /\ HashFrame

NextHash == PutHashLru \/ GetHashLru \/ PutHashLfu \/ GetHashLfu

SpecHash == InitHash /\ [][NextHash]_vars

(* The slices of the wrapper that was built.                               *)
Slices ==
    IF hashLruCaches # NoCache THEN hashLruCaches.lruSliceCaches
    ELSE hashLfuCache.lfuSliceCaches

Wrapper == IF hashLruCaches # NoCache THEN hashLruCaches ELSE hashLfuCache

RECURSIVE TotalSize(_, _)
TotalSize(slices, i) ==
    IF i = 0 THEN 0 ELSE Size(slices[i]) + TotalSize(slices, i - 1)

(* C19: a wrapper built with total capacity C and N >= 1 slices has        *)
(* exactly N sub-caches, each of capacity ceil(C / N), and the resident    *)
(* entries of all slices together never exceed N * ceil(C / N).            *)
C19_HashSizeBound ==
    LET C == Wrapper.capacity
        N == Wrapper.sliceNum
        each == CHOOSE q \in 0..C : q * N >= C /\ (q = 0 \/ (q - 1) * N < C)
    IN  /\ Len(Slices) = N
        /\ \A i \in 1..N : Slices[i].capacity = each
        /\ TotalSize(Slices, N) <= N * each

(* C20: a put or get on key a changes only the slice Hash(a) mod N, and    *)
(* every resident key is held by the slice its hash selects (where a get   *)
(* looks for it).                                                          *)
C20_Step ==
    LET a == last'.key
        N == Wrapper.sliceNum
    IN  /\ \A i \in 1..N : i # (a % N) + 1 => Slices'[i] = Slices[i]
        /\ \A i \in 1..N : \A b \in Resident(Slices'[i]) : i = (b % N) + 1

C20_ShardIndependence == [][C20_Step]_vars

(* C20 witness: two slices, each holding a key, and the last call a put    *)
(* that evicted within its own slice.                                      *)
C20_Witness ==
    /\ Wrapper.sliceNum = 2
    /\ \A i \in 1..2 : Resident(Slices[i]) # {}
    /\ last.op = "put" /\ ~last.hit
    /\ Size(Slices[(last.key % 2) + 1]) = Slices[(last.key % 2) + 1].capacity
    /\ calls >= 4

(* ------------------- LfuCache called by several threads ------------------- *)
(* pc: "enter" (the capacity_ test of put), "lock" (the lock_guard),       *)
(* "body" (the body under the lock and its release).                       *)
InitLfuThreads ==
    /\ \E capacity \in 0..MaxThreadCap : lfu = LfuCache(capacity, MaxAverage)
    /\ lru = NoCache
    /\ historyList_ = NoCache
    /\ k_ = 0
    /\ arc = NoCache
    /\ accessOrder = <<>>
    /\ putCount = [x \in Keys |-> 0]
    /\ lastPut = [x \in Keys |-> DefaultValue]
    /\ accCount = [x \in Keys |-> 0]
    /\ calls = 0
    /\ last = NoCall
    /\ OneCaller
    /\ hashLruCaches = NoCache
    /\ hashLfuCache = NoCache

LfuFrame == UNCHANGED <<lru, historyList_, k_, arc, accessOrder, putCount, lastPut, accCount,
                        hashLruCaches, hashLfuCache>>

(* A thread calls LfuCache::put or LfuCache::get.                          *)
LfuCall(t) ==
    /\ lfu # NoCache /\ NoCrash
    /\ thread[t].pc = "idle"
    /\ calls < MaxThreadCalls
    /\ \E key \in ThreadKeys :
          \/ \E value \in Values :
                thread' = [thread EXCEPT ![t] =
                    [Idle EXCEPT !.pc = "enter", !.op = "put", !.key = key, !.value = value]]
          \/ thread' = [thread EXCEPT ![t] =
                    [Idle EXCEPT !.pc = "lock", !.op = "get", !.key = key]]
    /\ calls' = calls + 1
    /\ UNCHANGED <<lfu, mutex_, last>>
    /\ LfuFrame

(* LfuCache::put: if(capacity_ == 0) return.                               *)
LfuEnter(t) ==
    /\ lfu # NoCache /\ NoCrash
    /\ thread[t].pc = "enter"
    /\ IF lfu.capacity = 0
       THEN /\ thread' = [thread EXCEPT ![t] = Idle]
            /\ last' = Returned(t, FALSE, DefaultValue)
       ELSE /\ thread' = Goto(t, "lock")
            /\ last' = last
    /\ UNCHANGED <<lfu, mutex_, calls>>
    /\ LfuFrame

(* std::lock_guard<std::mutex> lock(mutex_)                                *)
LfuLock(t) ==
    /\ lfu # NoCache /\ NoCrash
    /\ thread[t].pc = "lock"
    /\ CanLock("lfu")
    /\ mutex_' = Lock("lfu", t)
    /\ thread' = Goto(t, "body")
    /\ UNCHANGED <<lfu, last, calls>>
    /\ LfuFrame

(* The body of put or get under the lock, the release and the return.      *)
LfuBody(t) ==
    LET me == thread[t]
    IN  /\ lfu # NoCache /\ NoCrash
        /\ me.pc = "body"
        /\ \E order \in Orders(DOMAIN lfu.nodeMap \cup {me.key}),
              junk \in JunkRead(lfu, me.key) :
              LET next == IF me.op = "put" THEN LfuPut(lfu, me.key, me.value, order, junk)
                          ELSE LfuGet(lfu, me.key, order)
              IN  /\ lfu' = next
                  /\ thread' = [thread EXCEPT ![t] =
                                    IF next.ub THEN [Idle EXCEPT !.pc = "crash"] ELSE Idle]
                  /\ last' = IF next.ub THEN Crash(me.key)
                             ELSE Returned(t, LfuHit(lfu, me.key),
                                           IF me.op = "get" THEN LfuValue(lfu, me.key)
                                           ELSE DefaultValue)
        /\ mutex_' = Unlock("lfu")
        /\ UNCHANGED calls
        /\ LfuFrame

LfuThread(t) ==
        \/ LfuCall(t)
        \/ LfuEnter(t)
        \/ LfuLock(t)
        \/ LfuBody(t)

NextLfuThreads == \E t \in Threads : LfuThread(t)

SpecLfuThreads == InitLfuThreads /\ [][NextLfuThreads]_vars

(* ------------------- LruKCache called by several threads ------------------- *)
(* LruKCache has no mutex of its own: put and get are sequences of calls   *)
(* into the two LruCache objects, each locking that object's mutex for the *)
(* length of the call. part names the call in progress: "mainGet" and      *)
(* "mainPut" (LruCache::get and put of the base class), "histGet" and      *)
(* "histPut" (historyList_->get and put). pc: "enter" (the capacity_ test  *)
(* of a put), "lock", "body", and "histRemove" (the removeNode on the      *)
(* history cache, which takes no lock). ret holds historyCount.            *)
InitLruKThreads ==
    /\ \E capacity \in 0..MaxThreadCap : lru = LruCache(capacity)
    /\ \E historyCapacity \in 0..MaxThreadCap : historyList_ = LruCache(historyCapacity)
    /\ k_ \in 1..MaxK
    /\ lfu = NoCache
    /\ arc = NoCache
    /\ accessOrder = <<>>
    /\ putCount = [x \in Keys |-> 0]
    /\ lastPut = [x \in Keys |-> DefaultValue]
    /\ accCount = [x \in Keys |-> 0]
    /\ calls = 0
    /\ last = NoCall
    /\ OneCaller
    /\ hashLruCaches = NoCache
    /\ hashLfuCache = NoCache

LruKFrame == UNCHANGED <<k_, lfu, arc, accessOrder, putCount, lastPut, accCount,
                         hashLruCaches, hashLfuCache>>

(* The mutex of the object a call of LruKCache goes into.                  *)
LruKMutex(part) == IF part \in {"mainGet", "mainPut"} THEN "lru" ELSE "historyList_"

(* Where put and get of LruKCache go on after the call named me.part has   *)
(* returned: the thread's record, Idle when the operation returns.         *)
LruKAfter(me) ==
    CASE me.part = "mainGet" /\ me.op = "put" ->
             IF me.found THEN [me EXCEPT !.pc = "enter", !.part = "mainPut"]
             ELSE [me EXCEPT !.pc = "lock", !.part = "histGet"]
      [] me.part = "mainGet" /\ me.op = "get" -> Idle
      [] me.part = "histGet" ->
             [me EXCEPT !.pc = "enter", !.part = "histPut", !.ret = @ + 1]
      [] me.part = "histPut" /\ me.op = "put" ->
             IF ShouldPromote(me.ret, k_) THEN [me EXCEPT !.pc = "histRemove"] ELSE Idle
      [] me.part = "histPut" /\ me.op = "get" ->
             [me EXCEPT !.pc = "lock", !.part = "mainGet"]
      [] me.part = "mainPut" -> Idle

(* A thread calls LruKCache::put (first LruCache::get(key, tempValue)) or  *)
(* LruKCache::get (first historyList_->get(key)).                          *)
LruKCall(t) ==
    /\ lru # NoCache /\ k_ >= 1 /\ NoCrash
    /\ thread[t].pc = "idle"
    /\ calls < MaxLruKCalls
    /\ \E key \in ThreadKeys :
          \/ \E value \in Values :
                thread' = [thread EXCEPT ![t] =
                    [Idle EXCEPT !.pc = "lock", !.op = "put", !.key = key, !.value = value,
                                 !.part = "mainGet"]]
          \/ thread' = [thread EXCEPT ![t] =
                    [Idle EXCEPT !.pc = "lock", !.op = "get", !.key = key,
                                 !.part = "histGet"]]
    /\ calls' = calls + 1
    /\ UNCHANGED <<lru, historyList_, mutex_, last>>
    /\ LruKFrame

(* LruCache::put line 113, in the main cache or the history cache:         *)
(* if(capacity_ <= 0) return.                                              *)
LruKEnter(t) ==
    LET me    == thread[t]
        cache == IF me.part = "mainPut" THEN lru ELSE historyList_
        after == LruKAfter(me)
    IN  /\ lru # NoCache /\ k_ >= 1 /\ NoCrash
        /\ me.pc = "enter"
        /\ IF cache.capacity <= 0
           THEN /\ thread' = [thread EXCEPT ![t] = after]
                /\ last' = IF after = Idle THEN Returned(t, FALSE, DefaultValue) ELSE last
           ELSE /\ thread' = Goto(t, "lock")
                /\ last' = last
        /\ UNCHANGED <<lru, historyList_, mutex_, calls>>
        /\ LruKFrame

(* std::lock_guard<std::mutex> lock(mutex_) of the object called.          *)
LruKLock(t) ==
    /\ lru # NoCache /\ k_ >= 1 /\ NoCrash
    /\ thread[t].pc = "lock"
    /\ CanLock(LruKMutex(thread[t].part))
    /\ mutex_' = Lock(LruKMutex(thread[t].part), t)
    /\ thread' = Goto(t, "body")
    /\ UNCHANGED <<lru, historyList_, last, calls>>
    /\ LruKFrame

(* The body of LruCache::get or put on the main cache, the release of its  *)
(* mutex and the return into LruKCache.                                    *)
LruKMainBody(t) ==
    LET me    == thread[t]
        me1   == IF me.part = "mainGet"
                 THEN [me EXCEPT !.found = LruHit(lru, me.key), !.ret = LruValue(lru, me.key)]
                 ELSE me
        after == LruKAfter(me1)
    IN  /\ lru # NoCache /\ k_ >= 1 /\ NoCrash
        /\ me.pc = "body" /\ me.part \in {"mainGet", "mainPut"}
        /\ lru' = IF me.part = "mainGet" THEN LruGet(lru, me.key)
                  ELSE LruPut(lru, me.key, me.value)
        /\ mutex_' = Unlock("lru")
        /\ thread' = [thread EXCEPT ![t] = after]
        /\ last' = IF after = Idle
                   THEN Returned(t, me1.found,
                                 IF me.op = "get" THEN me1.ret ELSE DefaultValue)
                   ELSE last
        /\ UNCHANGED <<historyList_, calls>>
        /\ LruKFrame

(* The body of historyList_->get or put, the release of its mutex and the  *)
(* return into LruKCache. A miss leaves historyCount 0.                    *)
LruKHistoryBody(t) ==
    LET me    == thread[t]
        me1   == IF me.part = "histGet"
                 THEN [me EXCEPT !.ret = IF LruHit(historyList_, me.key)
                                         THEN LruValue(historyList_, me.key) ELSE 0]
                 ELSE me
        after == LruKAfter(me1)
    IN  /\ lru # NoCache /\ k_ >= 1 /\ NoCrash
        /\ me.pc = "body" /\ me.part \in {"histGet", "histPut"}
        /\ historyList_' = IF me.part = "histGet" THEN LruGet(historyList_, me.key)
                           ELSE LruPut(historyList_, me.key, me.ret)
        /\ mutex_' = Unlock("historyList_")
        /\ thread' = [thread EXCEPT ![t] = after]
        /\ last' = IF after = Idle THEN Returned(t, FALSE, DefaultValue) ELSE last
        /\ UNCHANGED <<lru, calls>>
        /\ LruKFrame

(* historyList_->removeNode(historyList_->nodeMap_[key]), no lock held.    *)
(* The key may be gone from the index (a null pointer is then used), and   *)
(* another thread may be inside the locked body of the history cache: the  *)
(* program ends, or in the second case goes on.                            *)
LruKHistoryRemove(t) ==
    LET me   == thread[t]
        next == HistoryRemove(historyList_, me.key)
    IN  /\ lru # NoCache /\ k_ >= 1 /\ NoCrash
        /\ me.pc = "histRemove"
        /\ historyList_' = next
        /\ \E pc \in (IF next.ub THEN {"crash"} ELSE {"enter"}) \cup
                     (IF Racing(t, "historyList_") THEN {"crash"} ELSE {}) :
              /\ thread' = [thread EXCEPT ![t] = [me EXCEPT !.pc = pc, !.part = "mainPut"]]
              /\ last' = IF pc = "crash" THEN Crash(me.key) ELSE last
        /\ UNCHANGED <<lru, mutex_, calls>>
        /\ LruKFrame

LruKThread(t) ==
        \/ LruKCall(t)
        \/ LruKEnter(t)
        \/ LruKLock(t)
        \/ LruKMainBody(t)
        \/ LruKHistoryBody(t)
        \/ LruKHistoryRemove(t)

NextLruKThreads == \E t \in Threads : LruKThread(t)

SpecLruKThreads == InitLruKThreads /\ [][NextLruKThreads]_vars

(* ------------- HashLruCaches and HashLfuCache called by several threads ------------- *)
(* The wrappers have no mutex of their own: put and get compute the slice  *)
(* index and call into that slice, which locks its own mutex. part names   *)
(* the mutex of the slice. pc: "enter" (the capacity_ test of the slice's  *)
(* put), "lock", "body".                                                   *)
InitHashThreads ==
    /\ \E capacity \in 0..MaxThreadCap + 1, sliceNum \in 1..MaxSlices :
          \/ /\ hashLruCaches = HashLruCaches(capacity, sliceNum)
             /\ hashLfuCache = NoCache
          \/ /\ hashLruCaches = NoCache
             /\ hashLfuCache = HashLfuCache(capacity, sliceNum, MaxAverage)
    /\ lru = NoCache
    /\ historyList_ = NoCache
    /\ k_ = 0
    /\ lfu = NoCache
    /\ arc = NoCache
    /\ accessOrder = <<>>
    /\ putCount = [x \in Keys |-> 0]
    /\ lastPut = [x \in Keys |-> DefaultValue]
    /\ accCount = [x \in Keys |-> 0]
    /\ calls = 0
    /\ last = NoCall
    /\ OneCaller

HashThreadFrame == UNCHANGED <<lru, historyList_, k_, lfu, arc, accessOrder, putCount, lastPut,
                               accCount>>

Built == hashLruCaches # NoCache \/ hashLfuCache # NoCache

(* The slice a thread's call goes into.                                    *)
SliceOf(t) == Slices[sliceIndex(Wrapper, thread[t].key) + 1]

(* A thread calls put or get of the wrapper: size_t sliceIndex =           *)
(* Hash(key) % sliceNum_, then the slice's put or get.                     *)
HashCall(t) ==
    /\ Built /\ NoCrash
    /\ thread[t].pc = "idle"
    /\ calls < MaxThreadCalls
    /\ \E key \in ThreadKeys :
          \/ \E value \in Values :
                thread' = [thread EXCEPT ![t] =
                    [Idle EXCEPT !.pc = "enter", !.op = "put", !.key = key, !.value = value,
                                 !.part = sliceMutex(sliceIndex(Wrapper, key))]]
          \/ thread' = [thread EXCEPT ![t] =
                    [Idle EXCEPT !.pc = "lock", !.op = "get", !.key = key,
                                 !.part = sliceMutex(sliceIndex(Wrapper, key))]]
    /\ calls' = calls + 1
    /\ UNCHANGED <<hashLruCaches, hashLfuCache, mutex_, last>>
    /\ HashThreadFrame

(* The slice's put: if(capacity_ <= 0) return (LruCache),                  *)
(* if(capacity_ == 0) return (LfuCache).                                   *)
HashEnter(t) ==
    /\ Built /\ NoCrash
    /\ thread[t].pc = "enter"
    /\ IF SliceOf(t).capacity <= 0
       THEN /\ thread' = [thread EXCEPT ![t] = Idle]
            /\ last' = Returned(t, FALSE, DefaultValue)
       ELSE /\ thread' = Goto(t, "lock")
            /\ last' = last
    /\ UNCHANGED <<hashLruCaches, hashLfuCache, mutex_, calls>>
    /\ HashThreadFrame

(* std::lock_guard<std::mutex> lock(mutex_) of the slice.                  *)
HashLock(t) ==
    /\ Built /\ NoCrash
    /\ thread[t].pc = "lock"
    /\ CanLock(thread[t].part)
    /\ mutex_' = Lock(thread[t].part, t)
    /\ thread' = Goto(t, "body")
    /\ UNCHANGED <<hashLruCaches, hashLfuCache, last, calls>>
    /\ HashThreadFrame

(* The body of the slice's put or get, the release of the slice's mutex    *)
(* and the return.                                                         *)
HashBody(t) ==
    LET me == thread[t]
    IN  /\ Built /\ NoCrash
        /\ me.pc = "body"
        /\ IF hashLruCaches # NoCache
           THEN /\ hashLruCaches' = IF me.op = "put"
                                    THEN HashLruPut(hashLruCaches, me.key, me.value)
                                    ELSE HashLruGet(hashLruCaches, me.key)
                /\ hashLfuCache' = hashLfuCache
                /\ thread' = [thread EXCEPT ![t] = Idle]
                /\ last' = Returned(t, HashLruHit(hashLruCaches, me.key),
                                    IF me.op = "get" THEN HashLruValue(hashLruCaches, me.key)
                                    ELSE DefaultValue)
           ELSE /\ \E order \in Orders(DOMAIN SliceOf(t).nodeMap \cup {me.key}),
                      junk \in JunkRead(SliceOf(t), me.key) :
                      hashLfuCache' = IF me.op = "put"
                                      THEN HashLfuPut(hashLfuCache, me.key, me.value, order, junk)
                                      ELSE HashLfuGet(hashLfuCache, me.key, order)
                /\ hashLruCaches' = hashLruCaches
                /\ LET ub == hashLfuCache'.lfuSliceCaches[sliceIndex(Wrapper, me.key) + 1].ub
                   IN  /\ thread' = [thread EXCEPT ![t] =
                                        IF ub THEN [Idle EXCEPT !.pc = "crash"] ELSE Idle]
                       /\ last' = IF ub THEN Crash(me.key)
                                  ELSE Returned(t, HashLfuHit(hashLfuCache, me.key),
                                                IF me.op = "get"
                                                THEN HashLfuValue(hashLfuCache, me.key)
                                                ELSE DefaultValue)
        /\ mutex_' = Unlock(me.part)
        /\ UNCHANGED calls
        /\ HashThreadFrame

HashThread(t) ==
        \/ HashCall(t)
        \/ HashEnter(t)
        \/ HashLock(t)
        \/ HashBody(t)

NextHashThreads == \E t \in Threads : HashThread(t)

SpecHashThreads == InitHashThreads /\ [][NextHashThreads]_vars

(* ------------------- Every engine, called by several threads ------------------- *)
InitThreads ==
    \/ InitLruThreads
    \/ InitLruKThreads
    \/ InitLfuThreads
    \/ InitArcThreads
    \/ InitHashThreads

(* The steps of thread t, in whichever engine was built.                   *)
ThreadStep(t) ==
    \/ LruThread(t)
    \/ LruKThread(t)
    \/ LfuThread(t)
    \/ ArcThread(t)
    \/ HashThread(t)

NextThreads == \E t \in Threads : ThreadStep(t)

SpecThreads == InitThreads /\ [][NextThreads]_vars

(* A thread is inside a put or get.                                        *)
Started(t) == thread[t].pc # "idle"

(* The mutex a thread at "lock" is about to take.                          *)
Wanted(t) ==
    LET part == thread[t].part
    IN  IF part \in Mutexes THEN part
        ELSE IF part # "none" THEN LruKMutex(part)
        ELSE IF lfu # NoCache THEN "lfu"
        ELSE "lru"

(* A thread waits for a mutex that another thread holds.                   *)
Blocked(t) == thread[t].pc = "lock" /\ ~CanLock(Wanted(t))

(* The scheduler can run thread t: the program has not ended and the       *)
(* thread is inside a call, not waiting for a held mutex.                  *)
Runnable(t) == NoCrash /\ Started(t) /\ ~Blocked(t)

(* Thread t takes a step.                                                  *)
Runs(t) == thread'[t] # thread[t]

(* The values a thread's record takes.                                     *)
ThreadRecords ==
    [pc    : {"idle", "enter", "lock", "body", "find", "apply", "histRemove", "crash",
              "checkGhost", "ghostRemove", "adjustFirst", "adjustSecond", "enterLfu"},
     op    : {"none", "put", "get"},
     key   : Keys,
     value : Values \cup {DefaultValue},
     found : BOOLEAN,
     ret   : 0..(MaxThreadCalls + MaxVal),
     part  : {"none", "mainGet", "mainPut", "histGet", "histPut"} \cup Mutexes]

(* The scheduler runs thread t: a runnable thread takes its next step,     *)
(* whatever the step is.                                                   *)
Scheduled(t) ==
    /\ Runnable(t)
    /\ thread' \in [Threads -> ThreadRecords]
    /\ Runs(t)

(* Fair scheduling: a thread that stays runnable is run.                   *)
FairSpecThreads == SpecThreads /\ \A t \in Threads : WF_thread(Scheduled(t))

(* Each put/get holds at most one mutex at a time, none while it waits for *)
(* a mutex and none once it has returned.                                  *)
C18_LockDiscipline ==
    \A t \in Threads :
        /\ Cardinality(Holds(t)) <= 1
        /\ thread[t].pc \in {"idle", "lock"} => Holds(t) = {}

(* No deadlock state: while a call is in progress and the program has not  *)
(* ended, some thread inside a call is not waiting for a held mutex.       *)
C18_NoDeadlock ==
    (NoCrash /\ \E t \in Threads : Started(t))
    => \E t \in Threads : Started(t) /\ ~Blocked(t)

(* Every started operation completes, or the program has ended on          *)
(* undefined behaviour.                                                    *)
C18_CompletesUnlessEnded ==
    \A t \in Threads : Started(t) ~> (~Started(t) \/ ~NoCrash)

(* C18: deadlock freedom. In every engine no thread waits for a mutex      *)
(* while holding another one, no deadlock state is reachable and, under    *)
(* fair scheduling, every started put or get completes.                    *)
C18_DeadlockFreedom ==
    /\ [](C18_LockDiscipline /\ C18_NoDeadlock)
    /\ \A t \in Threads : Started(t) ~> ~Started(t)

(* ------------------------- LfuCache: minFreq_ and aging ------------------------- *)
(* The frequencies held by the resident entries.                           *)
ResidentFreqs(c) == { c.node[c.nodeMap[x]].freq : x \in DOMAIN c.nodeMap }

(* C21: the min-frequency cursor. After every completed put or get on an   *)
(* LfuCache with at least one resident entry, minFreq_ is the smallest     *)
(* frequency of a resident entry; after a put that inserted a new key it   *)
(* is 1.                                                                   *)
C21_LfuMinFreqCursor ==
    (lfu # NoCache /\ ~lfu.ub /\ last.op # "none" /\ DOMAIN lfu.nodeMap # {})
    => /\ lfu.minFreq = MinOf(ResidentFreqs(lfu))
       /\ (last.op = "put" /\ ~last.hit /\ lfu.capacity > 0) => lfu.minFreq = 1

(* The step is a put or get that ran updateAveAndTotalFreqNum and found    *)
(* curTotalNum_ / nodeMap_.size() above maxAverageNum_.                    *)
AgingTriggered ==
    /\ lfu # NoCache /\ ~lfu'.ub
    /\ last' # last
    /\ \/ last'.op = "put" /\ lfu.capacity # 0
       \/ last'.op = "get" /\ last'.hit
    /\ lfu'.curAverageNum > lfu'.maxAverageNum

(* The frequency of the entry of key x when the aging loop starts.         *)
FreqBeforeAging(x) ==
    IF x = last'.key
    THEN IF x \in DOMAIN lfu.nodeMap THEN LfuFreq(lfu, x) + 1 ELSE 1
    ELSE LfuFreq(lfu, x)

C22_FrequenciesReduced ==
    AgingTriggered =>
        \A x \in DOMAIN lfu'.nodeMap :
            LET f == FreqBeforeAging(x) - (lfu.maxAverageNum \div 2)
            IN  LfuFreq(lfu', x) = IF f < 1 THEN 1 ELSE f

C22_InBucketOfFrequency ==
    AgingTriggered =>
        \A x \in DOMAIN lfu'.nodeMap :
            /\ LfuFreq(lfu', x) \in DOMAIN lfu'.freqToFreqList
            /\ lfu'.nodeMap[x] \in SeqRange(lfu'.freqToFreqList[LfuFreq(lfu', x)])

C22_MinFreqAfterAging ==
    AgingTriggered => lfu'.minFreq = MinOf(ResidentFreqs(lfu'))

(* C22: LFU aging. Whenever an access makes curTotalNum_ / size exceed     *)
(* maxAverageNum_, every resident entry's frequency f becomes              *)
(* max(1, f - maxAverageNum_ / 2), each entry sits in the bucket of its    *)
(* new frequency, and minFreq_ is the smallest frequency of a resident     *)
(* entry.                                                                  *)
C22_LfuAging ==
    [][C22_FrequenciesReduced /\ C22_InBucketOfFrequency /\ C22_MinFreqAfterAging]_vars

(* The get hits that the T1 entry of key has had: accessCount_ is 1 in a   *)
(* new node and one more after every hit.                                  *)
TimesHit(p, key) == p.node[p.mainCache[key]].accessCount - 1

(* A get that finds its key in T1.                                         *)
HitsInT1 ==
    /\ arc # NoCache
    /\ last' # last
    /\ last'.op = "get"
    /\ last'.key \in T1(checkGhostCaches(arc, last'.key))

C23_Step ==
    LET k == last'.key
    IN  (HitsInT1 /\ arc.transformThreshold = 2) =>
            /\ (last.op = "put" /\ last.key = k /\ ~last.hit) => k \notin T2(arc')
            /\ (k \notin T2(arc) /\ TimesHit(arc'.lruPart, k) < 2) => k \notin T2(arc')
            /\ (TimesHit(arc'.lruPart, k) >= 2 /\ arc'.lfuPart.capacity > 0) => k \in T2(arc')

(* C23: ARC promotion timing. With threshold 2 the first get hit on a key   *)
(* that was just put into T1 does not install it in T2; a hit in T1        *)
(* installs the key in T2 exactly when the hits on the T1 entry have       *)
(* reached the threshold, so the second hit does.                          *)
C23_ArcPromotionTiming == [][C23_Step]_vars

(* The key of the node at the tail of a list of a part.                    *)
KeyAtTail(p, list) == p.node[list[Len(list)]].key

(* A put with a T1 of capacity at least 1 leaves its key in T1, at the     *)
(* tail of the list, with the value put.                                   *)
C24_InstalledAtMru ==
    LET k == last'.key
    IN  (arc # NoCache /\ last' # last /\ last'.op = "put" /\ arc.lruPart.capacity >= 1) =>
            /\ k \in T1(arc')
            /\ KeyAtTail(arc'.lruPart, arc'.lruPart.mainList) = k
            /\ ArcLruValue(arc'.lruPart, k) = last'.value

(* The insert into a full T1 that does not hold the key moves exactly the  *)
(* entry after the head to the tail of B1, and leaves T2 as the ghost      *)
(* check left it.                                                          *)
C24_EvictsLruToB1 ==
    LET k  == last'.key
        a1 == checkGhostCaches(arc, k)
        p  == a1.lruPart
    IN  (arc # NoCache /\ last' # last /\ last'.op = "put" /\ p.capacity >= 1) =>
            /\ (k \notin T1(a1) /\ Cardinality(T1(a1)) >= p.capacity) =>
                   LET victim == p.node[Head(p.mainList)].key
                   IN  /\ T1(arc') = (T1(a1) \ {victim}) \cup {k}
                       /\ KeyAtTail(arc'.lruPart, arc'.lruPart.ghostList) = victim
            /\ T2(arc') = T2(a1)

(* C24: ARC put protocol. Every put(k, v) on an ArcCache whose T1 has       *)
(* capacity at least 1 leaves k in T1 at the most recently used position   *)
(* with value v, ghost hit or not, in T2 or not; when k was not in T1 and  *)
(* T1 was full, exactly the least recently used entry of T1 leaves T1 and  *)
(* becomes the newest entry of B1; the insert does not change T2.          *)
C24_ArcPutProtocol == [][C24_InstalledAtMru /\ C24_EvictsLruToB1]_vars

(* Longer runs on one ArcCache of the largest capacity: every get hit in   *)
(* T1 promotes (threshold 1) and one value is put.                         *)
InitArcLong == InitArc /\ arc = ArcCache(MaxCap, 1)

PutArcLong == PutArcOf(Keys, {MaxVal}, MaxLongCalls)

GetArcLong == GetArcOf(Keys, MaxLongCalls)

NextArcLong == PutArcLong \/ GetArcLong

SpecArcLong == InitArcLong /\ [][NextArcLong]_vars

(* The keys of the nodes linked in a list of a part.                       *)
KeysLinked(p, list) == { p.node[list[i]].key : i \in 1..Len(list) }

(* The last n elements of a sequence (all of it when it is shorter).       *)
Newest(q, n) == IF Len(q) <= n THEN q ELSE SubSeq(q, Len(q) - n + 1, Len(q))

(* The sequences of at most two elements of S: one call evicts at most     *)
(* twice from a partition (decreaseCapacity, then addNewNode).             *)
UpToTwo(S) == { <<>> } \cup { <<x>> : x \in S } \cup { <<x, y>> : x \in S, y \in S }

(* |B1| <= C and |B2| <= C, the ghost capacity being the constructed       *)
(* capacity.                                                               *)
C25_GhostsBounded ==
    arc # NoCache =>
        \A p \in {arc.lruPart, arc.lfuPart} :
            /\ p.ghostCapacity = arc.capacity
            /\ Cardinality(DOMAIN p.ghostCache) <= arc.capacity

(* Each ghost index holds exactly the keys linked in its ghost list.        *)
C25_GhostIndexIsGhostList ==
    arc # NoCache =>
        \A p \in {arc.lruPart, arc.lfuPart} :
            DOMAIN p.ghostCache = KeysLinked(p, p.ghostList)

(* A ghost list after a call is the list the ghost check left, with the    *)
(* keys evicted from the partition appended in the order of eviction, cut  *)
(* to its C newest entries.                                                *)
GhostIsFifo(before, after, resident) ==
    \E news \in UpToTwo(resident) :
        LET keys == [i \in 1..Len(after.ghostList) |-> after.node[after.ghostList[i]].key]
            old  == [i \in 1..Len(before.ghostList) |-> before.node[before.ghostList[i]].key]
        IN  keys = Newest(old \o news, after.ghostCapacity)

C25_GhostStep ==
    (arc # NoCache /\ last' # last) =>
        LET a1 == [arc EXCEPT !.lruPart = checkGhost(arc.lruPart, last'.key),
                              !.lfuPart = IF InGhost(arc.lruPart, last'.key) THEN arc.lfuPart
                                          ELSE checkGhost(arc.lfuPart, last'.key)]
        IN  /\ GhostIsFifo(a1.lruPart, arc'.lruPart, T1(arc))
            /\ GhostIsFifo(a1.lfuPart, arc'.lfuPart, T2(arc))

(* C25: ARC ghost lists are bounded FIFOs. In every reachable state B1 and  *)
(* B2 hold at most C keys, C the constructed capacity; every eviction from *)
(* a partition appends the victim at the ghost tail, the oldest ghost      *)
(* being dropped first when the ghost holds C keys; each ghost index holds *)
(* exactly the keys linked in its ghost list.                              *)
C25_ArcGhostLists ==
    /\ [](C25_GhostsBounded /\ C25_GhostIndexIsGhostList)
    /\ [][C25_GhostStep]_vars

C26_Step ==
    LET k == last'.key
    IN  (arc # NoCache /\ last' # last /\ k \in B1(arc) \cup B2(arc)) =>
            /\ k \notin B1(arc') \cup B2(arc')
            /\ k \in T1(arc')

(* C26: an ARC ghost hit re-admits the key. After a put or a get that finds *)
(* its key in B1 or B2, the key has left the ghost list and is resident in *)
(* T1 when the call returns.                                               *)
C26_GhostHitReadmits == [][C26_Step]_vars

(* A get that hits returns the value of the latest put of its key.         *)
C27_HitReturnsLatestPut ==
    (arc # NoCache /\ last.op = "get" /\ last.hit) => last.ret = lastPut[last.key]

(* After a put no resident copy of its key carries another value.          *)
C27_NoOlderCopy ==
    (arc # NoCache /\ last.op = "put") =>
        /\ last.key \in T1(arc) => ArcLruValue(arc.lruPart, last.key) = last.value
        /\ last.key \in T2(arc) => ArcLfuValue(arc.lfuPart, last.key) = last.value

(* C27: ARC never returns a stale value. Whenever get(k) hits, in T1 or in  *)
(* T2, it returns the value of the most recent put(k, .); a put that       *)
(* overwrites k leaves no resident copy of k with an older value.          *)
C27_ArcNoStaleValue == C27_HitReturnsLatestPut /\ C27_NoOlderCopy

C28_Step ==
    (/\ arc # NoCache
     /\ last' # last
     /\ last'.op = "get"
     /\ last'.key \in T1(arc) \cup T2(arc))
    => last'.hit

(* C28: an ARC get on a resident key hits. If k is in T1 or T2 when get(k)  *)
(* is called, get(k) returns true: the ghost check and the capacity        *)
(* adjustment at the start of the get do not evict k before it is probed.  *)
C28_ResidentGetHits == [][C28_Step]_vars

(* C29: ARC capacity conservation. In every state reachable by put and get *)
(* on an ArcCache of capacity C the capacities of the two partitions add   *)
(* up to 2C, so neither exceeds 2C.                                        *)
C29_CapacityConserved ==
    arc # NoCache =>
        /\ arc.lruPart.capacity + arc.lfuPart.capacity = 2 * arc.capacity
        /\ arc.lruPart.capacity <= 2 * arc.capacity
        /\ arc.lfuPart.capacity <= 2 * arc.capacity

(* The nodes linked in the frequency lists of T2.                          *)
ArcLinked(p) == UNION { SeqRange(p.freqMap[f]) : f \in DOMAIN p.freqMap }

(* |T1| <= C_lru and |T2| <= C_lfu.                                        *)
C30_PartitionsBounded ==
    arc # NoCache =>
        /\ Cardinality(T1(arc)) <= arc.lruPart.capacity
        /\ Cardinality(T2(arc)) <= arc.lfuPart.capacity

(* The same between the ghost check and the probes of any put or get.      *)
C30_BoundedAfterGhostCheck ==
    arc # NoCache =>
        \A k \in Keys :
            LET a1 == checkGhostCaches(arc, k)
            IN  /\ Cardinality(T1(a1)) <= a1.lruPart.capacity
                /\ Cardinality(T2(a1)) <= a1.lfuPart.capacity

(* Each index holds exactly the keys in its ordering structure.            *)
C30_IndexIsOrdering ==
    arc # NoCache =>
        /\ T1(arc) = KeysLinked(arc.lruPart, arc.lruPart.mainList)
        /\ Len(arc.lruPart.mainList) = Cardinality(T1(arc))
        /\ T2(arc) = { arc.lfuPart.node[n].key : n \in ArcLinked(arc.lfuPart) }
        /\ Cardinality(ArcLinked(arc.lfuPart)) = Cardinality(T2(arc))

(* minFreq_ names the smallest non-empty list of T2.                       *)
C30_MinFreqIsSmallest ==
    (arc # NoCache /\ T2(arc) # {}) =>
        LET p == arc.lfuPart
        IN  /\ p.minFreq \in DOMAIN p.freqMap
            /\ p.freqMap[p.minFreq] # <<>>
            /\ \A f \in DOMAIN p.freqMap : p.freqMap[f] # <<>> => p.minFreq <= f

(* C30: ARC per-partition bound. In every state reachable by put and get,  *)
(* also right after a decreaseCapacity caused by a ghost hit, |T1| <= C_lru *)
(* and |T2| <= C_lfu; each partition's index holds exactly the keys in its *)
(* ordering structure; minFreq_ of T2 names its smallest non-empty list    *)
(* whenever T2 is not empty.                                               *)
C30_ArcPartitions ==
    /\ C30_PartitionsBounded
    /\ C30_BoundedAfterGhostCheck
    /\ C30_IndexIsOrdering
    /\ C30_MinFreqIsSmallest

(* A get whose ghost hit in B2 took an entry out of a full T1, with T1     *)
(* full at its lowered capacity and the smallest frequency of T2 above 1.  *)
C30_Witness ==
    /\ arc # NoCache
    /\ last.op = "get"
    /\ Cardinality(T1(arc)) = last.before - 1
    /\ Cardinality(T1(arc)) = arc.lruPart.capacity
    /\ T2(arc) # {}
    /\ arc.lfuPart.minFreq > 1


====
